---------------------------- MODULE Spec2Model ----------------------------
(***************************************************************************)
(* Model of the showmemsci plotting scripts (src/src/plots/*.py).          *)
(*                                                                         *)
(* Every script is a linear batch run: read the CSV of daily closing       *)
(* prices, derive its data, build the figure, write the HTML file.  Spec   *)
(* follows one run of one script from its start to the written file (or    *)
(* to the error that ends it); SpecPage follows a written chart in the     *)
(* browser through button clicks, slider steps and hover events.           *)
(*                                                                         *)
(* Numbers.  The scripts compute with IEEE doubles.  The model computes    *)
(* with exact values instead of rounded ones:                              *)
(*    [n, d, g, k]  with d > 0   stands for  (n/d)^(1/g) + k               *)
(*    [0, 0, 1, 0]               stands for  NaN                           *)
(*    [1, 0, 1, 0], [-1, 0, 1, 0] stand for  +inf, -inf                    *)
(* kept in a canonical form (n/d in lowest terms, a root reduced as far    *)
(* as it goes, g = 1 implies k = 0), so that two values are the same       *)
(* number exactly when the records are equal.  Rounding error of the       *)
(* doubles is outside the model; NaN, the infinities, division by zero     *)
(* and the power of a negative base are inside it.                         *)
(***************************************************************************)
EXTENDS Integers, Sequences, FiniteSets, TLC

(***************************************************************************)
(* Bounds of the model.                                                    *)
(***************************************************************************)
\* Largest number of calendar years in the input file.
MaxYears == 4

\* Closing prices that occur in the input files with one row per year.
PriceSet == {-1, 0, 1, 2, 4}

\* Closing prices that occur in the input files with several rows per year.
DailyPriceSet == {2, 3}

(***************************************************************************)
(* Program constants.                                                      *)
(***************************************************************************)
\* returns = returns[returns.index < 2025]
CutoffYear == 2025

-----------------------------------------------------------------------------
(***************************************************************************)
(* Exact arithmetic standing for the float64 arithmetic of numpy/pandas.   *)
(***************************************************************************)
Abs(x) == IF x < 0 THEN -x ELSE x

Sign(x) == IF x < 0 THEN -1 ELSE IF x = 0 THEN 0 ELSE 1

RECURSIVE GCD(_, _)
GCD(a, b) == IF b = 0 THEN a ELSE GCD(b, a % b)

RECURSIVE IPow(_, _)
IPow(b, e) == IF e = 0 THEN 1 ELSE b * IPow(b, e - 1)

NaN == [n |-> 0, d |-> 0, g |-> 1, k |-> 0]

PosInf == [n |-> 1, d |-> 0, g |-> 1, k |-> 0]

NegInf == [n |-> -1, d |-> 0, g |-> 1, k |-> 0]

\* The rational a/b (b # 0) in lowest terms with a positive denominator.
Rat(a, b) ==
    LET c == GCD(Abs(a), Abs(b))
        s == Sign(b)
    IN  [n |-> (s * a) \div c, d |-> Abs(b) \div c, g |-> 1, k |-> 0]

IsNaN(x) == x.d = 0 /\ x.n = 0

IsInf(x) == x.d = 0 /\ x.n # 0

IsFinite(x) == x.d > 0

IsRat(x) == x.d > 0 /\ x.g = 1

\* float division a / b of two finite floats: x/0 is +-inf, 0/0 is NaN.
FloatDiv(a, b) ==
    IF b = 0
    THEN IF a = 0 THEN NaN ELSE IF a > 0 THEN PosInf ELSE NegInf
    ELSE Rat(a, b)

\* x + c for an integer c.
AddInt(x, c) ==
    IF x.d = 0 THEN x
    ELSE IF x.g = 1 THEN Rat(x.n + c * x.d, x.d)
    ELSE [x EXCEPT !.k = x.k + c]

\* x * y for rationals, infinities and NaN (0 * inf is NaN).
Mul(x, y) ==
    IF IsNaN(x) \/ IsNaN(y) THEN NaN
    ELSE IF x.d = 0 \/ y.d = 0
         THEN LET s == Sign(x.n) * Sign(y.n)
              IN  IF s = 0 THEN NaN ELSE IF s > 0 THEN PosInf ELSE NegInf
         ELSE Rat(x.n * y.n, x.d * y.d)

\* exp(log(x).sum()): the product by way of logarithms, NaN as soon as one
\* element is not positive.
RECURSIVE ProdByLogs(_)
ProdByLogs(xs) ==
    IF xs = << >> THEN Rat(1, 1)
    ELSE IF IsNaN(Head(xs)) \/ Head(xs).n <= 0 THEN NaN
    ELSE Mul(Head(xs), ProdByLogs(Tail(xs)))

\* ndarray.prod(): the product of the elements, 1.0 for an empty array.
RECURSIVE Prod(_)
Prod(xs) == IF xs = << >> THEN Rat(1, 1) ELSE Mul(Head(xs), Prod(Tail(xs)))

\* TRUE iff m is the j-th power of a natural number.
IsPower(m, j) == \E b \in 0..m : IPow(b, j) = m

IRoot(m, j) == CHOOSE b \in 0..m : IPow(b, j) = m

\* The positive real w-th root of the positive rational n/d, reduced: the
\* largest j dividing w for which n and d are j-th powers is taken out.
Root(n, d, w) ==
    LET js == {j \in 1..w : w % j = 0 /\ IsPower(n, j) /\ IsPower(d, j)}
        j  == CHOOSE a \in js : \A b \in js : b <= a
    IN  [n |-> IRoot(n, j), d |-> IRoot(d, j), g |-> w \div j, k |-> 0]

\* x ** 0.5 whatever the window: the exponent does not follow the window.
PowInvSquareRoot(x, w) ==
    IF ~IsRat(x) THEN x
    ELSE IF x.n < 0 THEN NaN
    ELSE IF x.n = 0 THEN x
    ELSE Root(x.n, x.d, 2)

\* abs(x) ** (1 / w): the sign of the base is dropped before the root.
PowInvOfAbs(x, w) ==
    IF ~IsRat(x) THEN x
    ELSE IF w = 1 THEN x
    ELSE IF x.n = 0 THEN x
    ELSE Root(Abs(x.n), x.d, w)

\* The real w-th root: an odd root of a negative base is -(|x| ** (1 / w)).
PowInvRealRoot(x, w) ==
    IF ~IsRat(x) THEN x
    ELSE IF w = 1 THEN x
    ELSE IF x.n = 0 THEN x
    ELSE IF x.n > 0 THEN Root(x.n, x.d, w)
    ELSE IF w % 2 = 0 THEN NaN
    ELSE LET a == Root(-x.n, x.d, w)
         IN  IF a.g = 1 THEN Rat(-a.n, a.d) ELSE [a EXCEPT !.n = -a.n]

\* x ** (1 / w) on float64: the argument is the product of a window of
\* finite values.  A negative base with a fractional exponent gives NaN
\* (for w = 1 the exponent is 1.0 and the base is returned).
PowInv(x, w) ==
    IF ~IsRat(x) THEN x
    ELSE IF w = 1 THEN x
    ELSE IF x.n < 0 THEN NaN
    ELSE IF x.n = 0 THEN x
    ELSE Root(x.n, x.d, w)

\* x ** e for a natural exponent e >= 1 and x a rational or a plain root.
PowInt(x, e) ==
    IF x.d = 0 THEN x
    ELSE IF x.g = 1 THEN Rat(IPow(x.n, e), IPow(x.d, e))
    ELSE IF x.k # 0 THEN NaN
    ELSE IF e % x.g = 0 THEN Rat(IPow(x.n, e \div x.g), IPow(x.d, e \div x.g))
    ELSE Root(IPow(x.n, e), IPow(x.d, e), x.g)

\* x <= y for rationals and infinities (FALSE when either is NaN).
Leq(x, y) ==
    IF IsNaN(x) \/ IsNaN(y) THEN FALSE
    ELSE IF x.d = 0 THEN x.n < 0 \/ (y.d = 0 /\ y.n > 0)
    ELSE IF y.d = 0 THEN y.n > 0
    ELSE x.n * y.d <= y.n * x.d

-----------------------------------------------------------------------------
(***************************************************************************)
(* The input files.  df is the DataFrame read from the CSV: rows in date   *)
(* order, each with the calendar year of its date and its Close.  Every    *)
(* calendar year between the first and the last row has at least one row.  *)
(***************************************************************************)
\* An input file starts MaxYears years before the cut-off year or the year
\* after, so that the longest files end in the last year kept or in the
\* first year cut off.
StartYears == {CutoffYear - MaxYears, CutoffYear - MaxYears + 1}

RECURSIVE Flatten(_)
Flatten(ss) == IF ss = << >> THEN << >> ELSE Head(ss) \o Flatten(Tail(ss))

RowsOfYear(y, prices) == [i \in 1..Len(prices) |-> [year |-> y, Close |-> prices[i]]]

\* One row per calendar year.
YearlyFiles ==
    UNION {UNION {{[i \in 1..n |-> [year |-> y0 + i - 1, Close |-> f[i]]] :
                      f \in [1..n -> PriceSet]} : n \in 1..MaxYears} :
              y0 \in StartYears}

\* One or two rows per calendar year, over fewer than MaxYears years.
DailyFiles ==
    LET Obs == [1..1 -> DailyPriceSet] \cup [1..2 -> DailyPriceSet]
        y0  == CutoffYear - MaxYears + 1
    IN  UNION {{Flatten([i \in 1..n |-> RowsOfYear(y0 + i - 1, f[i])]) :
                   f \in [1..n -> Obs]} : n \in 1..(MaxYears - 1)}

\* The file of two years of +10% each: returns [0.10, 0.10].
ExampleFiles ==
    {[i \in 1..3 |-> [year |-> CutoffYear - MaxYears + i - 1,
                      Close |-> <<100, 110, 121>>[i]]]}

InputFiles == YearlyFiles \cup DailyFiles \cup ExampleFiles

\* Closing prices that occur in the files of the yearly profiles.
ProfilePriceSet == {0, 1, 2}

\* The files of the yearly profiles: one or two rows per calendar year.
ProfileFiles ==
    LET Obs == [1..1 -> ProfilePriceSet] \cup [1..2 -> ProfilePriceSet]
        y0  == CutoffYear - MaxYears + 1
    IN  UNION {{Flatten([i \in 1..n |-> RowsOfYear(y0 + i - 1, f[i])]) :
                   f \in [1..n -> Obs]} : n \in 1..(MaxYears - 2)}

Scripts == {"heatmap", "long-term", "multiple", "returns-one", "returns-two", "single"}

VARIABLES
    script,       \* the script that runs
    pc,           \* position of the run in the script
    df,           \* the DataFrame read from the CSV
    last,         \* df.resample("YE").last(): one row per calendar year
    returns,      \* the annual-return frame: rows [year, Return]
    N_YEARS,      \* number of holding periods (NaN when it has no value)
    h,            \* loop variable of the aggregation loop
    returns_avg,  \* heatmap: columns Return_0.. of the annualized frame
    returns_tot,  \* heatmap: columns Return_0.. of the total-return frame
    Interval,     \* returns-one: number of the interval of every row (0 = NaN)
    return_dict,  \* returns-one: interval number -> list of [year, Return]
    env,          \* the machine: is the CSV there, is the locale installed
    Return_h,     \* long-term: the columns Return_0.. added to the frame returns
    base_tracker, \* returns-one: interval number -> height of its stack of bars
    fig,          \* the figure built by the script
    html,         \* the output file img/<script>.html
    page          \* the chart in the browser that opened the output file

\* The variables of the scripts' data, of the outputs, and of the browser.
data == <<last, returns, N_YEARS, h, returns_avg, returns_tot, Interval,
          return_dict, Return_h, base_tracker>>

vars == <<script, pc, df, last, returns, N_YEARS, h, returns_avg, returns_tot,
          Interval, return_dict, env, Return_h, base_tracker, fig, html, page>>

-----------------------------------------------------------------------------
(***************************************************************************)
(* The annual-return series (the same four lines in every script).         *)
(***************************************************************************)
Max(S) == CHOOSE a \in S : \A b \in S : b <= a

Min(S) == CHOOSE a \in S : \A b \in S : a <= b

\* The Close of the first row of calendar year y (resample("YE").first()).
FirstOfYear(d, y) == d[Min({i \in DOMAIN d : d[i].year = y})].Close

\* The Close of the last row of calendar year y.
LastOfYear(d, y) == d[Max({i \in DOMAIN d : d[i].year = y})].Close

\* df.resample("YE").last(): one row per calendar year from the first to
\* the last year of the index, holding the last observation of the year.
ResampleLast(d) ==
    LET y0 == d[1].year
        y1 == d[Len(d)].year
    IN  [i \in 1..(y1 - y0 + 1) |->
            [year |-> y0 + i - 1, Close |-> LastOfYear(d, y0 + i - 1)]]

\* Series.pct_change(): x[i] / x[i-1] - 1, NaN in the first row.
PctChange(xs) ==
    [i \in 1..Len(xs) |->
        IF i = 1 THEN NaN ELSE AddInt(FloatDiv(xs[i].Close, xs[i - 1].Close), -1)]

\* .dropna(): the rows whose value is not NaN (an infinity is kept).
DropNA(rows) == SelectSeq(rows, LAMBDA r : ~IsNaN(r.Return))

\* returns[returns.index < 2025]
BeforeCutoff(rows) == SelectSeq(rows, LAMBDA r : r.year < CutoffYear)

\* last["Close"].pct_change().dropna().to_frame("Return"), indexed by year and
\* cut at the cut-off year.
AnnualReturns(l) ==
    LET pct == PctChange(l)
    IN  BeforeCutoff(DropNA([i \in 1..Len(l) |-> [year |-> l[i].year, Return |-> pct[i]]]))

\* len(returns) in the place of the span of the index.
IndexCount(rows) == IF rows = << >> THEN NaN ELSE Rat(Len(rows), 1)

\* returns.index.max() - returns.index.min() + 1; the extremes of an empty
\* index are NaN, and so is the result.
IndexSpan(rows) ==
    IF rows = << >> THEN NaN
    ELSE LET ys == {rows[i].year : i \in DOMAIN rows}
         IN  Rat(Max(ys) - Min(ys) + 1, 1)

-----------------------------------------------------------------------------
(***************************************************************************)
(* The Return Aggregator: rolling product, shifted to the start year.      *)
(***************************************************************************)
\* Rolling._prep_values: infinities are turned into NaN before the window
\* function runs.
PrepValues(xs) == [j \in 1..Len(xs) |-> IF IsInf(xs[j]) THEN NaN ELSE xs[j]]

\* xs.rolling(window=w, min_periods=w): position j holds the w values
\* ending at j when all w of them are observations, and nothing (<< >>)
\* otherwise; .apply(F, raw=True) gives F of the window, NaN for nothing.
RollingWindows(xs, w) ==
    LET v == PrepValues(xs)
    IN  [j \in 1..Len(xs) |->
            IF j < w THEN << >>
            ELSE LET win == SubSeq(v, j - w + 1, j)
                 IN  IF \A t \in 1..w : ~IsNaN(win[t]) THEN win ELSE << >>]

\* xs.shift(-p, fill_value=0): the rows past the end are filled with 0.
ShiftBackZeroFill(xs, p) ==
    [i \in 1..Len(xs) |-> IF i + p <= Len(xs) THEN xs[i + p] ELSE Rat(0, 1)]

\* xs.shift(-p): position i takes the value of position i + p, NaN past the end.
ShiftBack(xs, p) ==
    [i \in 1..Len(xs) |-> IF i + p <= Len(xs) THEN xs[i + p] ELSE NaN]

\* The .sub(1) left out.
SubOneForgotten(xs) == xs

\* xs.sub(1)
SubOne(xs) == [i \in 1..Len(xs) |-> AddInt(xs[i], -1)]

\* returns["Return"] + 1
OnePlus(rows) == [i \in 1..Len(rows) |-> AddInt(rows[i].Return, 1)]

\* The annualized column with the exponent 1 / (window + 1).
AvgColumnRootOffByOne(one_plus, hh) ==
    LET window == hh + 1
        wins   == RollingWindows(one_plus, window)
    IN  SubOne(ShiftBack([j \in DOMAIN wins |->
                             IF wins[j] = << >> THEN NaN
                             ELSE PowInv(Prod(wins[j]), window + 1)], hh))

\* The column Return_{hh} of the annualized frame.
AvgColumn(one_plus, hh) ==
    LET window == hh + 1
        wins   == RollingWindows(one_plus, window)
    IN  SubOne(ShiftBack([j \in DOMAIN wins |->
                             IF wins[j] = << >> THEN NaN
                             ELSE PowInv(Prod(wins[j]), window)], hh))

\* The total-return column without .shift(-h): the value stays at the last
\* year of its window.
TotColumnUnshifted(one_plus, hh) ==
    LET window == hh + 1
        wins   == RollingWindows(one_plus, window)
    IN  SubOne([j \in DOMAIN wins |->
                   IF wins[j] = << >> THEN NaN ELSE Prod(wins[j])])

\* The column Return_{hh} of the total-return frame.
TotColumn(one_plus, hh) ==
    LET window == hh + 1
        wins   == RollingWindows(one_plus, window)
    IN  SubOne(ShiftBack([j \in DOMAIN wins |->
                             IF wins[j] = << >> THEN NaN ELSE Prod(wins[j])], hh))

\* plot_long-term.py: the loop body with the window one year short
\* (window = h), so that column Return_h holds the h-year return.
LongTermColumnShortWindow(rows, hh) ==
    LET window   == hh
        one_plus == [i \in 1..Len(rows) |-> AddInt(rows[i].Return, 1)]
        wins     == RollingWindows(one_plus, window)
        applied  == [j \in DOMAIN wins |->
                        IF wins[j] = << >> THEN NaN
                        ELSE PowInv(Prod(wins[j]), window)]
    IN  IF hh = 0 THEN [i \in 1..Len(rows) |-> NaN]
        ELSE SubOne(ShiftBack(applied, hh))

\* plot_long-term.py: the column returns[f"Return_{h}"] =
\* (returns["Return"] + 1).rolling(window=window, min_periods=window)
\*     .apply(lambda x: x.prod() ** (1 / window), raw=True).shift(-h).sub(1)
LongTermColumn(rows, hh) ==
    LET window   == hh + 1
        one_plus == [i \in 1..Len(rows) |-> AddInt(rows[i].Return, 1)]
        wins     == RollingWindows(one_plus, window)
        applied  == [j \in DOMAIN wins |->
                        IF wins[j] = << >> THEN NaN
                        ELSE PowInv(Prod(wins[j]), window)]
    IN  SubOne(ShiftBack(applied, hh))

-----------------------------------------------------------------------------
(***************************************************************************)
(* Binning of plot_returns-one.py.                                         *)
(***************************************************************************)
\* bins = [-np.inf, -0.5, -0.4, -0.3, -0.2, -0.1, 0, 0.1, 0.2, 0.3, 0.4, 0.5, np.inf]
bins ==
    <<NegInf, Rat(-5, 10), Rat(-4, 10), Rat(-3, 10), Rat(-2, 10), Rat(-1, 10),
      Rat(0, 1), Rat(1, 10), Rat(2, 10), Rat(3, 10), Rat(4, 10), Rat(5, 10), PosInf>>

\* The categories: interval j runs from bins[j] to bins[j + 1].
Categories == 1..(Len(bins) - 1)

\* pd.cut(x, bins) with the default right=True: intervals (a, b], the edge
\* found with searchsorted(side="left").
CutRightClosed(x) ==
    LET ids == Cardinality({j \in DOMAIN bins : Leq(bins[j], x) /\ bins[j] # x})
    IN  IF IsNaN(x) \/ ids = Len(bins) \/ ids = 0 THEN 0 ELSE ids

\* pd.cut(x, bins, right=False): ids = bins.searchsorted(x, side="right") is
\* the number of edges <= x; the value is NaN (0 here) when ids is 0 or
\* len(bins), and lies in interval ids otherwise.
Cut(x) ==
    LET ids == Cardinality({j \in DOMAIN bins : Leq(bins[j], x)})
    IN  IF IsNaN(x) \/ ids = Len(bins) \/ ids = 0 THEN 0 ELSE ids

\* list(zip(returns[returns["Interval"] == iv].index,
\*          returns.loc[returns["Interval"] == iv, "Return"]))
EntriesOf(rows, ivs, iv) ==
    LET keep == SelectSeq([i \in 1..Len(rows) |-> i], LAMBDA i : ivs[i] = iv)
    IN  [m \in 1..Len(keep) |-> rows[keep[m]]]

-----------------------------------------------------------------------------
(***************************************************************************)
(* The figures.  A string built from a number is kept as the sequence of   *)
(* its parts: "" is << >>, "21.0%" is <<[tenths |-> 210], "%">>.           *)
(***************************************************************************)
\* a / b (b > 0) rounded to the nearest integer, a tie to the even one.
RoundHalfEven(a, b) ==
    LET f == a \div b
        r == a - f * b
    IN  IF 2 * r < b THEN f
        ELSE IF 2 * r > b THEN f + 1
        ELSE IF f % 2 = 0 THEN f ELSE f + 1

\* (z * 100).round(1).astype(str) for a z that is not NaN: the number of
\* tenths of a rational; an irrational root is left unrounded (rounding it
\* takes more than the model's integers hold) and an infinity is "inf".
Round1Str(z) ==
    IF IsRat(z) THEN [tenths |-> RoundHalfEven(1000 * z.n, z.d)]
    ELSE IF IsInf(z) THEN [inf |-> z.n]
    ELSE [round1x100 |-> z]

\* np.where(z == 0, "", ...): the blank put on the zero cells.
LabelBlankOnZero(z) ==
    IF z = Rat(0, 1) THEN << >>
    ELSE IF IsNaN(z) THEN <<"nan", "%">> ELSE <<Round1Str(z), "%">>

\* One element of np.where(np.isnan(z), "", (z * 100).round(1).astype(str) + "%")
Label(z) == IF IsNaN(z) THEN << >> ELSE <<Round1Str(z), "%">>

\* frame[holding_cols].values[::-1, :]: row r, column c of the array is the
\* cell of column c in row Y - r + 1 of the frame.
ValuesReversed(cols, rows) ==
    [r \in 1..rows |-> [c \in 1..Len(cols) |-> cols[c][rows - r + 1]]]

\* The text matrix of a value matrix.
TextOf(z) == [r \in DOMAIN z |-> [c \in DOMAIN z[r] |-> Label(z[r][c])]]

\* The figure with y_years = returns_avg.index.tolist(), without the [::-1]:
\* the rows of z and text are reversed, the row labels are not.
HeatmapFigureOldestFirst(rows, avg, tot) ==
    LET x_years == [c \in 1..Len(avg) |-> (c - 1) + 1]
        y_years == [r \in 1..Len(rows) |-> rows[r].year]
        z_avg   == ValuesReversed(avg, Len(rows))
        z_tot   == ValuesReversed(tot, Len(rows))
    IN  [kind    |-> "figure",
         data    |-> <<[name |-> "trace_avg", z |-> z_avg, x |-> x_years,
                        y |-> y_years, text |-> TextOf(z_avg), visible |-> TRUE],
                       [name |-> "trace_tot", z |-> z_tot, x |-> x_years,
                        y |-> y_years, text |-> TextOf(z_tot), visible |-> FALSE]>>,
         buttons |-> <<[label |-> "Average Return", visible |-> <<TRUE, FALSE>>],
                       [label |-> "Total Return", visible |-> <<FALSE, TRUE>>]>>,
         steps   |-> << >>]

\* go.Figure(data=[trace_avg, trace_tot]) with the two buttons of the
\* updatemenu: x_years, y_years, z and text of both traces.
HeatmapFigure(rows, avg, tot) ==
    LET x_years == [c \in 1..Len(avg) |-> (c - 1) + 1]
        y_years == [r \in 1..Len(rows) |-> rows[Len(rows) - r + 1].year]
        z_avg   == ValuesReversed(avg, Len(rows))
        z_tot   == ValuesReversed(tot, Len(rows))
    IN  [kind    |-> "figure",
         data    |-> <<[name |-> "trace_avg", z |-> z_avg, x |-> x_years,
                        y |-> y_years, text |-> TextOf(z_avg), visible |-> TRUE],
                       [name |-> "trace_tot", z |-> z_tot, x |-> x_years,
                        y |-> y_years, text |-> TextOf(z_tot), visible |-> FALSE]>>,
         buttons |-> <<[label |-> "Average Return", visible |-> <<TRUE, FALSE>>],
                       [label |-> "Total Return", visible |-> <<FALSE, TRUE>>]>>,
         steps   |-> << >>]

\* The loop body without base_tracker[iv] += 1: every bar is put at the base
\* the tracker started with.
RECURSIVE AddBarsNoIncrement(_, _, _)
AddBarsNoIncrement(todo, bars, tracker) ==
    IF todo = << >> THEN [data |-> bars, base_tracker |-> tracker]
    ELSE LET e == Head(todo)
         IN  AddBarsNoIncrement(Tail(todo),
                                Append(bars, [x |-> e.iv, y |-> 1, base |-> tracker[e.iv],
                                              text |-> <<e.year, Round1Str(e.Return), "%">>]),
                                tracker)

\* for iv, entries in return_dict.items(): for year, ret in entries:
\* fig.add_trace(go.Bar(x=[str(iv)], y=[1], base=[base_tracker[iv]], ...))
\* and base_tracker[iv] += 1, over the entries still to do.
RECURSIVE AddBars(_, _, _)
AddBars(todo, bars, tracker) ==
    IF todo = << >> THEN [data |-> bars, base_tracker |-> tracker]
    ELSE LET e == Head(todo)
         IN  AddBars(Tail(todo),
                     Append(bars, [x |-> e.iv, y |-> 1, base |-> tracker[e.iv],
                                   text |-> <<e.year, Round1Str(e.Return), "%">>]),
                     [tracker EXCEPT ![e.iv] = @ + 1])

\* return_dict.items() as one list of entries, interval by interval.
ItemsOf(dict) ==
    Flatten([iv \in DOMAIN dict |->
                [m \in 1..Len(dict[iv]) |->
                    [iv |-> iv, year |-> dict[iv][m].year,
                     Return |-> dict[iv][m].Return]]])

-----------------------------------------------------------------------------
(***************************************************************************)
(* plot_long-term.py: least, greatest and mean cell of every column.  A    *)
(* plotted value is kept as  times * (sum of the values in sum) / count,   *)
(* NaN as the empty sum; a sum of rationals, or of equal values, is        *)
(* reduced to one value with count 1.                                      *)
(***************************************************************************)
PlotNaN == [sum |-> << >>, count |-> 0, times |-> 100]

\* x * 100 for one cell x.
Times100(x) == IF IsNaN(x) THEN PlotNaN ELSE [sum |-> <<x>>, count |-> 1, times |-> 100]

\* The cells of a column that are not NaN: what min, max and mean with
\* skipna=True are taken over.
Defined(col) == SelectSeq(col, LAMBDA x : ~IsNaN(x))

\* fillna(0): the NaN cells taken as 0 (the mean over all the rows).
ZeroFilled(col) == [i \in 1..Len(col) |-> IF IsNaN(col[i]) THEN Rat(0, 1) ELSE col[i]]

\* a <= b for two cells of one column: rationals, or roots a' - 1 and
\* b' - 1 of non-negative numbers, compared by a common power of a' and b'.
LeqReal(a, b) ==
    IF IsRat(a) /\ IsRat(b) THEN Leq(a, b)
    ELSE LET a1 == AddInt(a, 1)
             b1 == AddInt(b, 1)
             L  == (a1.g * b1.g) \div GCD(a1.g, b1.g)
         IN  IF a1.n < 0 THEN TRUE
             ELSE IF b1.n < 0 THEN FALSE
             ELSE Leq(PowInt(a1, L), PowInt(b1, L))

\* The cells xs in ascending order.
RECURSIVE SortValues(_)
SortValues(xs) ==
    IF xs = << >> THEN << >>
    ELSE LET m == CHOOSE i \in DOMAIN xs : \A j \in DOMAIN xs : LeqReal(xs[i], xs[j])
         IN  <<xs[m]>> \o SortValues(SubSeq(xs, 1, m - 1) \o SubSeq(xs, m + 1, Len(xs)))

\* The sum of rationals.
RECURSIVE SumRat(_)
SumRat(xs) ==
    IF xs = << >> THEN Rat(0, 1)
    ELSE LET t == SumRat(Tail(xs))
         IN  Rat(Head(xs).n * t.d + t.n * Head(xs).d, Head(xs).d * t.d)

\* The mean of the cells xs (none of them NaN).
MeanOf(xs) ==
    IF xs = << >> THEN PlotNaN
    ELSE IF \A i \in DOMAIN xs : IsRat(xs[i])
         THEN [sum |-> <<Rat(SumRat(xs).n, SumRat(xs).d * Len(xs))>>, count |-> 1,
               times |-> 100]
    ELSE IF \A i \in DOMAIN xs : xs[i] = xs[1]
         THEN [sum |-> <<xs[1]>>, count |-> 1, times |-> 100]
    ELSE [sum |-> SortValues(xs), count |-> Len(xs), times |-> 100]

\* returns.min(axis=0).values * 100, for one column.
ColumnMin(col) ==
    IF Defined(col) = << >> THEN PlotNaN ELSE Times100(SortValues(Defined(col))[1])

\* returns.max(axis=0).values * 100, for one column.
ColumnMax(col) ==
    IF Defined(col) = << >> THEN PlotNaN
    ELSE Times100(SortValues(Defined(col))[Len(Defined(col))])

\* The mean over all the rows of the column, a NaN cell counted as 0.
ColumnMeanOverAllRows(col) == MeanOf(ZeroFilled(col))

\* returns.mean(axis=0).values * 100, for one column.
ColumnMean(col) == MeanOf(Defined(col))

\* idx, returns_lower, returns_upper, returns_avg and the three traces.
LongTermFigure(cols) ==
    LET idx           == [c \in 1..Len(cols) |-> c]
        returns_lower == [c \in 1..Len(cols) |-> ColumnMin(cols[c])]
        returns_upper == [c \in 1..Len(cols) |-> ColumnMax(cols[c])]
        returns_mean  == [c \in 1..Len(cols) |-> ColumnMean(cols[c])]
    IN  [kind    |-> "figure",
         data    |-> <<[name |-> "Lower Bound", x |-> idx, y |-> returns_lower],
                       [name |-> "Upper Bound", x |-> idx, y |-> returns_upper],
                       [name |-> "Average Return", x |-> idx, y |-> returns_mean]>>,
         buttons |-> << >>,
         steps   |-> << >>]

-----------------------------------------------------------------------------
(***************************************************************************)
(* plot_multiple.py: the yearly profiles.                                  *)
(***************************************************************************)
HIGHLIGHT_WIDTH == 4

HIGHLIGHT_COLOR == "#000000"

HIGHLIGHT_OPACITY == Rat(1, 1)

LINE_COLOR == "#000000"

LINE_WIDTH == 10

LINE_OPACITY == Rat(15, 100)

\* TRUE iff m is a power of two; its exponent.
IsPow2(m) == \E e \in 0..m : IPow(2, e) = m

Exp2(m) == CHOOSE e \in 0..m : IPow(2, e) = m

\* np.log2(q): NaN below zero, -inf at zero, the exponent of a power of
\* two, and otherwise the logarithm kept with its argument.
Log2(q) ==
    IF IsNaN(q) THEN NaN
    ELSE IF IsInf(q) THEN IF q.n > 0 THEN PosInf ELSE NaN
    ELSE IF q.n < 0 THEN NaN
    ELSE IF q.n = 0 THEN NegInf
    ELSE IF q.d = 1 /\ IsPow2(q.n) THEN Rat(Exp2(q.n), 1)
    ELSE IF q.n = 1 /\ IsPow2(q.d) THEN Rat(-Exp2(q.d), 1)
    ELSE [log2 |-> q]

\* x.iloc[0] taken of the whole column: the first row of the frame.
FirstOfFrame(d, y) == d[1].Close

\* x.iloc[0] within groupby("Year"): the first row of the year of the frame.
FirstOfGroup(d, y) == d[Min({i \in DOMAIN d : d[i].year = y})].Close

\* (x - x.iloc[0]) / x.iloc[0] * 100
PercentFrom(x, x0) == Mul(FloatDiv(x - x0, x0), Rat(100, 1))

\* np.log2(x / x.iloc[0])
Log2From(x, x0) == Log2(FloatDiv(x, x0))

\* The frame after the normalization: df[["Normalized", "Normalized_log"]],
\* with the year of the index.  The column Value, which the script drops,
\* is kept beside them as the record of the input.
Normalize(d) ==
    [i \in 1..Len(d) |->
        [year           |-> d[i].year,
         Value          |-> d[i].Close,
         Normalized     |-> PercentFrom(d[i].Close, FirstOfGroup(d, d[i].year)),
         Normalized_log |-> Log2From(d[i].Close, FirstOfGroup(d, d[i].year))]]

\* sorted(df.index.year.unique()) as a sequence.
RECURSIVE SortedSeq(_)
SortedSeq(S) == IF S = {} THEN << >> ELSE <<Min(S)>> \o SortedSeq(S \ {Min(S)})

\* The line style of a trace.
BaseStyle == [width |-> LINE_WIDTH, color |-> LINE_COLOR, opacity |-> LINE_OPACITY]

HighlightStyle ==
    [width |-> HIGHLIGHT_WIDTH, color |-> HIGHLIGHT_COLOR, opacity |-> HIGHLIGHT_OPACITY]

\* The slider steps with highlight_idxs = [i] only: the trace of the other
\* mode is left in the base style.
StepsOneMode(years) ==
    LET n_years == Len(years)
    IN  [s \in 1..n_years |->
            [label |-> years[s],
             style |-> [j \in 1..(2 * n_years) |->
                           IF j = s THEN HighlightStyle ELSE BaseStyle]]]

\* steps: step i restyles all traces, traces i and i + n_years (counted
\* from 0) to the highlight style and every other trace to the base style.
Steps(years) ==
    LET n_years == Len(years)
    IN  [s \in 1..n_years |->
            [label |-> years[s],
             style |-> [j \in 1..(2 * n_years) |->
                           IF j \in {s, s + n_years} THEN HighlightStyle
                           ELSE BaseStyle]]]

\* The two buttons with a second button that shows its own mode and does not
\* hide the first one.
ModeButtonsNoHide(n_years) ==
    <<[label   |-> "Additive Change",
       visible |-> [j \in 1..(2 * n_years) |-> j <= n_years]],
      [label   |-> "Multiplicative Change",
       visible |-> [j \in 1..(2 * n_years) |-> TRUE]]>>

\* buttons: {"visible": [True] * n_years + [False] * n_years} and
\* {"visible": [False] * n_years + [True] * n_years}
ModeButtons(n_years) ==
    <<[label   |-> "Additive Change",
       visible |-> [j \in 1..(2 * n_years) |-> j <= n_years]],
      [label   |-> "Multiplicative Change",
       visible |-> [j \in 1..(2 * n_years) |-> j > n_years]]>>

\* The figure of main(df): one trace per year and mode, the additive
\* traces first and visible; the two mode buttons; the slider.  Trace j
\* here is trace j - 1 of the script; slider.active counts from 0.
MultipleFigure(d) ==
    LET years    == SortedSeq({d[i].year : i \in DOMAIN d})
        n_years  == Len(years)
        YVals(col, y) ==
            LET sub == SelectSeq(d, LAMBDA r : r.year = y)
            IN  [m \in 1..Len(sub) |->
                    IF col = "Normalized" THEN sub[m].Normalized
                    ELSE sub[m].Normalized_log]
    IN  [kind    |-> "figure",
         data    |-> [j \in 1..(2 * n_years) |->
                         IF j <= n_years
                         THEN [name |-> years[j], col |-> "Normalized",
                               y |-> YVals("Normalized", years[j]),
                               style |-> BaseStyle, visible |-> TRUE]
                         ELSE [name |-> years[j - n_years], col |-> "Normalized_log",
                               y |-> YVals("Normalized_log", years[j - n_years]),
                               style |-> BaseStyle, visible |-> FALSE]],
         buttons |-> ModeButtons(n_years),
         steps   |-> Steps(years),
         active  |-> 0]

\* plot_returns-two.py: the bars of the annual returns (pct, visible) and of
\* their base-2 logarithms log2(1 + pct) (hidden), and the two buttons.
ReturnsTwoFigure(rows) ==
    [kind    |-> "figure",
     data    |-> <<[name |-> "Additive Change",
                    x |-> [i \in 1..Len(rows) |-> rows[i].year],
                    y |-> [i \in 1..Len(rows) |-> rows[i].Return],
                    visible |-> TRUE],
                   [name |-> "Multiplicative Change",
                    x |-> [i \in 1..Len(rows) |-> rows[i].year],
                    y |-> [i \in 1..Len(rows) |-> Log2(AddInt(rows[i].Return, 1))],
                    visible |-> FALSE]>>,
     buttons |-> <<[label |-> "Additive Change (Linear Scale)",
                    visible |-> <<TRUE, FALSE>>],
                   [label |-> "Multiplicative Change (Log2 Scale)",
                    visible |-> <<FALSE, TRUE>>]>>,
     steps   |-> << >>]

\* plot_single.py: ymin, ymax = 0, 4400
ymin == 0

ymax == 4400

\* yaxis=dict(title="Absolute Return in USD", ...) of fig.update_layout: the
\* title given as a string becomes the attribute title.text of the axis.
TitleOf(text) == [text |-> text]

LayoutYaxis ==
    [title      |-> TitleOf("Absolute Return in USD"),
     tickprefix |-> "$",
     showline   |-> TRUE,
     linewidth  |-> Rat(1, 2),
     linecolor  |-> "black",
     zeroline   |-> FALSE,
     showgrid   |-> TRUE,
     gridcolor  |-> "lightgrey",
     range      |-> <<ymin, ymax>>,
     fixedrange |-> TRUE]

\* args[1]["yaxis"] of the button "Additive Change".
AdditiveYaxis ==
    [title      |-> [text |-> "Absolute Return in USD"],
     tickprefix |-> "$",
     showline   |-> TRUE,
     linewidth  |-> Rat(1, 2),
     linecolor  |-> "black",
     zeroline   |-> FALSE,
     showgrid   |-> TRUE,
     gridcolor  |-> "lightgrey",
     range      |-> <<ymin, ymax>>,
     fixedrange |-> TRUE]

\* args[1]["yaxis"] of the button "Multiplicative Change" (the subscript two
\* of the title written as the digit).
MultiplicativeYaxis ==
    [title      |-> [text |-> "Absolute Return in USD (log2 scale)"],
     tickprefix |-> "$",
     type       |-> "log",
     base       |-> 2,
     showline   |-> TRUE,
     linewidth  |-> Rat(1, 2),
     linecolor  |-> "black",
     zeroline   |-> FALSE,
     showgrid   |-> TRUE,
     gridcolor  |-> "lightgrey",
     fixedrange |-> TRUE,
     minor      |-> [showgrid |-> TRUE, dtick |-> Rat(1, 2)]]

\* plot_single.py, main(df): two traces of the column Value, the first one
\* visible, the two buttons with the y-axis attributes they set, and the
\* y-axis of the layout.  (The weekly rows themselves are not part of the
\* figure of the model.)
SingleFigure ==
    [kind    |-> "figure",
     data    |-> <<[name |-> "Additive Change", col |-> "Value", visible |-> TRUE],
                   [name |-> "Multiplicative Change", col |-> "Value",
                    visible |-> FALSE]>>,
     buttons |-> <<[label |-> "Additive Change", visible |-> <<TRUE, FALSE>>,
                    yaxis |-> AdditiveYaxis],
                   [label |-> "Multiplicative Change", visible |-> <<FALSE, TRUE>>,
                    yaxis |-> MultiplicativeYaxis]>>,
     yaxis   |-> LayoutYaxis,
     steps   |-> << >>]

-----------------------------------------------------------------------------
(***************************************************************************)
(* The runs.                                                               *)
(***************************************************************************)
\* No figure has been built.
NoFigure == [kind |-> "none"]

\* The output path as it was before the run: no file, or the file written by
\* an earlier run.
Before == [kind |-> "before"]

\* No page is open.
NoPage == [kind |-> "none"]

\* The scripts that call locale.setlocale(locale.LC_TIME, "us_US.UTF-8")
\* before anything else.
LocaleScripts == {"multiple", "returns-two"}

\* The scripts that derive the annual-return series from the year-end prices.
ReturnScripts == {"heatmap", "long-term", "returns-one", "returns-two"}

\* The files a script is run on.
FilesOf(s) ==
    IF s = "multiple" THEN ProfileFiles
    ELSE IF s \in {"returns-two", "single"} THEN DailyFiles \cup ExampleFiles
    ELSE InputFiles

\* A script is started on a machine that has the CSV or not and the locale
\* or not (the locale is left out for the scripts that do not set it).
Init ==
    /\ script \in Scripts
    /\ env \in {e \in [csv : BOOLEAN, locale : BOOLEAN] :
                    script \notin LocaleScripts => e.locale}
    /\ html = Before
    /\ pc = "start"
    /\ df = << >>
    /\ last = << >>
    /\ returns = << >>
    /\ N_YEARS = NaN
    /\ h = 0
    /\ returns_avg = << >>
    /\ returns_tot = << >>
    /\ Interval = << >>
    /\ return_dict = << >>
    /\ Return_h = << >>
    /\ base_tracker = << >>
    /\ fig = NoFigure
    /\ page = NoPage

\* locale.setlocale raises locale.Error when the locale is not installed.
SetLocaleError ==
    /\ script \in LocaleScripts
    /\ pc = "start"
    /\ ~env.locale
    /\ pc' = "fatal"
    /\ UNCHANGED <<script, df, data, env, fig, html, page>>

\* The recovery the scripts do not have: a missing CSV is replaced by a
\* built-in example and the run goes on.
ReadCsvMissingRecovered ==
    /\ pc = "start"
    /\ script \in LocaleScripts => env.locale
    /\ ~env.csv
    /\ df' \in ExampleFiles
    /\ pc' = "loaded"
    /\ UNCHANGED <<script, data, env, fig, html, page>>

\* pd.read_csv(FILE_PATH, ...) of a missing file raises FileNotFoundError;
\* plot_multiple.py and plot_single.py catch it and raise it again, the other
\* scripts do not catch it.  The run ends.
ReadCsvMissing ==
    /\ pc = "start"
    /\ script \in LocaleScripts => env.locale
    /\ ~env.csv
    /\ pc' = "fatal"
    /\ UNCHANGED <<script, df, data, env, fig, html, page>>

\* pd.read_csv(FILE_PATH, ...) of the file that is there.
ReadCsv ==
    /\ pc = "start"
    /\ script \in LocaleScripts => env.locale
    /\ env.csv
    /\ df' \in FilesOf(script)
    /\ pc' = "loaded"
    /\ UNCHANGED <<script, data, env, fig, html, page>>

\* plot_heatmap.py, section 2: annual returns and the number of holding periods.
HeatmapPrepare ==
    /\ script = "heatmap"
    /\ pc = "loaded"
    /\ last' = ResampleLast(df)
    /\ returns' = AnnualReturns(last')
    /\ N_YEARS' = IndexSpan(returns')
    /\ pc' = "prepared"
    /\ UNCHANGED <<script, df, h, returns_avg, returns_tot, Interval, return_dict,
                   env, Return_h, base_tracker, fig, html, page>>

\* for h in range(N_YEARS): range() of a NaN raises TypeError.
HeatmapRangeError ==
    /\ script = "heatmap"
    /\ pc = "prepared"
    /\ IsNaN(N_YEARS)
    /\ pc' = "error"
    /\ UNCHANGED <<script, df, last, returns, N_YEARS, h, returns_avg, returns_tot,
                   Interval, return_dict,
                   env, Return_h, base_tracker, fig, html, page>>

\* One iteration of the loop of section 3: both frames get column Return_h.
HeatmapLoop ==
    /\ script = "heatmap"
    /\ pc \in {"prepared", "loop"}
    /\ ~IsNaN(N_YEARS)
    /\ h < N_YEARS.n
    /\ returns_avg' = Append(returns_avg, AvgColumn(OnePlus(returns), h))
    /\ returns_tot' = Append(returns_tot, TotColumn(OnePlus(returns), h))
    /\ h' = h + 1
    /\ pc' = IF h + 1 < N_YEARS.n THEN "loop" ELSE "aggregated"
    /\ UNCHANGED <<script, df, last, returns, N_YEARS, Interval, return_dict,
                   env, Return_h, base_tracker, fig, html, page>>

\* plot_heatmap.py, sections 4 to 6: axes, text matrices, traces, figure.
HeatmapBuild ==
    /\ script = "heatmap"
    /\ pc = "aggregated"
    /\ fig' = HeatmapFigure(returns, returns_avg, returns_tot)
    /\ pc' = "built"
    /\ UNCHANGED <<script, df, data, env, html, page>>

\* plot_long-term.py: annual returns and the number of holding periods.
LongTermPrepare ==
    /\ script = "long-term"
    /\ pc = "loaded"
    /\ last' = ResampleLast(df)
    /\ returns' = AnnualReturns(last')
    /\ N_YEARS' = IndexSpan(returns')
    /\ pc' = "prepared"
    /\ UNCHANGED <<script, df, h, returns_avg, returns_tot, Interval, return_dict,
                   env, Return_h, base_tracker, fig, html, page>>

\* for h in range(N_YEARS): range() of a NaN raises TypeError.
LongTermRangeError ==
    /\ script = "long-term"
    /\ pc = "prepared"
    /\ IsNaN(N_YEARS)
    /\ pc' = "error"
    /\ UNCHANGED <<script, df, data, env, fig, html, page>>

\* One iteration of the loop: the frame returns gets column Return_h.
LongTermLoop ==
    /\ script = "long-term"
    /\ pc \in {"prepared", "loop"}
    /\ ~IsNaN(N_YEARS)
    /\ h < N_YEARS.n
    /\ Return_h' = Append(Return_h, LongTermColumn(returns, h))
    /\ h' = h + 1
    /\ pc' = IF h + 1 < N_YEARS.n THEN "loop" ELSE "aggregated"
    /\ UNCHANGED <<script, df, last, returns, N_YEARS, returns_avg, returns_tot,
                   Interval, return_dict, env, base_tracker, fig, html, page>>

\* plot_long-term.py: the column Return dropped, the three arrays, the figure.
LongTermBuild ==
    /\ script = "long-term"
    /\ pc = "aggregated"
    /\ fig' = LongTermFigure(Return_h)
    /\ pc' = "built"
    /\ UNCHANGED <<script, df, data, env, html, page>>

\* plot_multiple.py, module level: the two normalized columns.
MultiplePrepare ==
    /\ script = "multiple"
    /\ pc = "loaded"
    /\ df' = Normalize(df)
    /\ pc' = "prepared"
    /\ UNCHANGED <<script, data, env, fig, html, page>>

\* main(df) up to the layout: traces, buttons, slider.
MultipleBuild ==
    /\ script = "multiple"
    /\ pc = "prepared"
    /\ fig' = MultipleFigure(df)
    /\ pc' = "built"
    /\ UNCHANGED <<script, df, data, env, html, page>>

\* pio.to_html, the hover script put before </body>, write_text.
MultipleWrite ==
    /\ script = "multiple"
    /\ pc = "built"
    /\ html' = [kind |-> "written", fig |-> fig, hover_js |-> TRUE]
    /\ pc' = "written"
    /\ UNCHANGED <<script, df, data, env, fig, page>>

\* plot_returns-one.py: year-end prices and annual returns.
ReturnsOnePrepare ==
    /\ script = "returns-one"
    /\ pc = "loaded"
    /\ last' = ResampleLast(df)
    /\ returns' = AnnualReturns(last')
    /\ pc' = "prepared"
    /\ UNCHANGED <<script, df, N_YEARS, h, returns_avg, returns_tot, Interval,
                   return_dict,
                   env, Return_h, base_tracker, fig, html, page>>

\* returns["Interval"] = pd.cut(returns["Return"], bins=bins, right=False)
ReturnsOneCut ==
    /\ script = "returns-one"
    /\ pc = "prepared"
    /\ Interval' = [i \in 1..Len(returns) |-> Cut(returns[i].Return)]
    /\ pc' = "binned"
    /\ UNCHANGED <<script, df, last, returns, N_YEARS, h, returns_avg, returns_tot,
                   return_dict,
                   env, Return_h, base_tracker, fig, html, page>>

\* return_dict = {iv: [...] for iv in returns["Interval"].cat.categories}
ReturnsOneDict ==
    /\ script = "returns-one"
    /\ pc = "binned"
    /\ return_dict' = [iv \in Categories |-> EntriesOf(returns, Interval, iv)]
    /\ pc' = "grouped"
    /\ UNCHANGED <<script, df, last, returns, N_YEARS, h, returns_avg, returns_tot,
                   Interval,
                   env, Return_h, base_tracker, fig, html, page>>

\* plot_returns-one.py, section 4: the figure of stacked unit bars.
ReturnsOneBuild ==
    /\ script = "returns-one"
    /\ pc = "grouped"
    /\ LET built == AddBars(ItemsOf(return_dict), << >>, [iv \in Categories |-> 0])
       IN  /\ fig' = [kind |-> "figure", data |-> built.data, buttons |-> << >>,
                      steps |-> << >>]
           /\ base_tracker' = built.base_tracker
    /\ pc' = "built"
    /\ UNCHANGED <<script, df, last, returns, N_YEARS, h, returns_avg, returns_tot,
                   Interval, return_dict, env, Return_h, html, page>>

\* plot_returns-two.py: df_yearly, returns (pct and log2), the figure.
ReturnsTwoBuild ==
    /\ script = "returns-two"
    /\ pc = "loaded"
    /\ last' = ResampleLast(df)
    /\ returns' = AnnualReturns(last')
    /\ fig' = ReturnsTwoFigure(returns')
    /\ pc' = "built"
    /\ UNCHANGED <<script, df, N_YEARS, h, returns_avg, returns_tot, Interval,
                   return_dict, env, Return_h, base_tracker, html, page>>

\* plot_single.py: the weekly frame and main(df).
SingleBuild ==
    /\ script = "single"
    /\ pc = "loaded"
    /\ fig' = SingleFigure
    /\ pc' = "built"
    /\ UNCHANGED <<script, df, data, env, html, page>>

\* fig.write_html(SAVE_HTML_TO, ...): the output file holds the figure.
WriteHtml ==
    /\ script # "multiple"
    /\ pc = "built"
    /\ html' = [kind |-> "written", fig |-> fig, hover_js |-> FALSE]
    /\ pc' = "written"
    /\ UNCHANGED <<script, df, data, env, fig, page>>

Next ==
    \/ SetLocaleError
    \/ ReadCsvMissing
    \/ ReadCsv
    \/ HeatmapPrepare
    \/ HeatmapRangeError
    \/ HeatmapLoop
    \/ HeatmapBuild
    \/ LongTermPrepare
    \/ LongTermRangeError
    \/ LongTermLoop
    \/ LongTermBuild
    \/ ReturnsOnePrepare
    \/ ReturnsOneCut
    \/ MultiplePrepare
    \/ MultipleBuild
    \/ MultipleWrite
    \/ ReturnsOneDict
    \/ ReturnsOneBuild
    \/ ReturnsTwoBuild
    \/ SingleBuild
    \/ WriteHtml

Spec == Init /\ [][Next]_vars

-----------------------------------------------------------------------------
(***************************************************************************)
(* The written chart in the browser.  The page holds, for every trace,     *)
(* whether it is visible and (for the yearly profiles) its line style, the *)
(* active step of the slider, whether the hover script has run, the trace  *)
(* under the pointer (0 for none) and the last event; for the weekly       *)
(* profile also the attributes of the y-axis, the button clicked last (0   *)
(* for none) and how the renderer treats unlisted attributes.  Traces,     *)
(* buttons and steps count from 1 here; slider.active counts from 0 as in  *)
(* the figure.                                                             *)
(***************************************************************************)
\* The charts with two buttons that toggle the display mode.
ToggleScripts == {"heatmap", "multiple", "returns-two", "single"}

\* One input file for each number of years below MaxYears, ending in the
\* year before the cut-off year: the prices 1, 2, 3, ...
PageFiles ==
    {[i \in 1..n |-> [year |-> CutoffYear - n + i - 1, Close |-> i]] :
        n \in 1..(MaxYears - 1)}

\* The figure plot_heatmap.py builds from file d (a file with a return).
HeatmapFigureOf(d) ==
    LET rows == AnnualReturns(ResampleLast(d))
        N    == IndexSpan(rows).n
    IN  HeatmapFigure(rows,
                      [c \in 1..N |-> AvgColumn(OnePlus(rows), c - 1)],
                      [c \in 1..N |-> TotColumn(OnePlus(rows), c - 1)])

\* The output files a run of script s writes for the files of PageFiles.
WrittenFiles(s) ==
    LET Ok(d) == s = "heatmap" => AnnualReturns(ResampleLast(d)) # << >>
        FigureOf(d) ==
            IF s = "heatmap" THEN HeatmapFigureOf(d)
            ELSE IF s = "multiple" THEN MultipleFigure(Normalize(d))
            ELSE IF s = "returns-two"
                 THEN ReturnsTwoFigure(AnnualReturns(ResampleLast(d)))
            ELSE SingleFigure
    IN  {[kind |-> "written", fig |-> FigureOf(d), hover_js |-> s = "multiple"] :
            d \in {e \in PageFiles : Ok(e)}}

\* A run has written its output file and has ended; no page is open.
InitPage ==
    /\ script \in ToggleScripts
    /\ env = [csv |-> TRUE, locale |-> TRUE]
    /\ html \in WrittenFiles(script)
    /\ pc = "written"
    /\ df = << >>
    /\ last = << >>
    /\ returns = << >>
    /\ N_YEARS = NaN
    /\ h = 0
    /\ returns_avg = << >>
    /\ returns_tot = << >>
    /\ Interval = << >>
    /\ return_dict = << >>
    /\ Return_h = << >>
    /\ base_tracker = << >>
    /\ fig = NoFigure
    /\ page = NoPage

\* The traces of the figure of the page, and the label of the active step.
Traces == html.fig.data

ActiveYear == html.fig.steps[page.active + 1].label

\* The charts whose y-axis the page follows, and what a click on a button
\* with a "yaxis" in args[1] does to the attributes of the axis the button
\* does not list: they are kept (the listed attributes are merged into the
\* axis) or dropped (the axis is replaced by the listed attributes),
\* depending on the renderer that shows the page.
YaxisScripts == {"single"}

RelayoutKinds == {"merge", "replace"}

Merged(axis, listed) ==
    [a \in DOMAIN axis \cup DOMAIN listed |->
        IF a \in DOMAIN listed THEN listed[a] ELSE axis[a]]

Relayout(kind, axis, listed) ==
    IF kind = "merge" THEN Merged(axis, listed) ELSE listed

\* Plotly.restyle(plotDiv, style, [j])
Restyle(styles, j, style) == [styles EXCEPT ![j] = style]

\* The browser opens the file: Plotly.newPlot draws the figure as built.
OpenPage ==
    /\ pc = "written"
    /\ page = NoPage
    /\ \E r \in IF script \in YaxisScripts THEN RelayoutKinds ELSE {"none"} :
       page' = [kind     |-> "page",
                relayout |-> r,
                button   |-> 0,
                yaxis    |-> IF script \in YaxisScripts THEN html.fig.yaxis
                             ELSE << >>,
                visible  |-> [j \in DOMAIN Traces |-> Traces[j].visible],
                style    |-> IF html.hover_js
                             THEN [j \in DOMAIN Traces |-> Traces[j].style]
                             ELSE << >>,
                active   |-> IF html.hover_js THEN html.fig.active ELSE 0,
                handlers |-> FALSE,
                hovered  |-> 0,
                last     |-> "open"]
    /\ UNCHANGED <<script, pc, df, data, env, fig, html>>

\* hover_js, DOMContentLoaded: the traces named after the active step of
\* the slider are restyled to the highlight style, and the hover and
\* unhover handlers are put on the plot.
DomContentLoaded ==
    /\ page # NoPage
    /\ html.hover_js
    /\ ~page.handlers
    /\ page' = [page EXCEPT
                   !.style = [j \in DOMAIN Traces |->
                                 IF Traces[j].name = ActiveYear THEN HighlightStyle
                                 ELSE page.style[j]],
                   !.handlers = TRUE,
                   !.last = "load"]
    /\ UNCHANGED <<script, pc, df, data, env, fig, html>>

\* A click on button b (method "update"): element j of the list
\* args[0]["visible"] is set on trace j, and the attributes of
\* args[1]["yaxis"] are set on the y-axis.
ClickButton ==
    /\ page # NoPage
    /\ \E b \in DOMAIN html.fig.buttons :
          page' = [page EXCEPT !.visible = html.fig.buttons[b].visible,
                               !.yaxis = IF script \in YaxisScripts
                                         THEN Relayout(page.relayout, page.yaxis,
                                                       html.fig.buttons[b].yaxis)
                                         ELSE page.yaxis,
                               !.button = b,
                               !.last = "click"]
    /\ UNCHANGED <<script, pc, df, data, env, fig, html>>

\* The slider is moved to step s (method "restyle" on all traces): trace j
\* gets element j of the widths, colors and opacities of the step.
SliderStep ==
    /\ page # NoPage
    /\ \E s \in DOMAIN html.fig.steps :
          page' = [page EXCEPT !.style = html.fig.steps[s].style,
                               !.active = s - 1,
                               !.last = "step"]
    /\ UNCHANGED <<script, pc, df, data, env, fig, html>>

\* plotly_hover on a point of the visible trace j: the trace is restyled to
\* the highlight style.
Hover ==
    /\ page # NoPage
    /\ page.handlers
    /\ page.hovered = 0
    /\ \E j \in DOMAIN Traces :
          /\ page.visible[j]
          /\ page' = [page EXCEPT !.style = Restyle(page.style, j, HighlightStyle),
                                  !.hovered = j,
                                  !.last = "hover"]
    /\ UNCHANGED <<script, pc, df, data, env, fig, html>>

\* An unhover handler without the test of the year: every trace is reset.
UnhoverResetsAll ==
    /\ page # NoPage
    /\ page.handlers
    /\ page.hovered # 0
    /\ page' = [page EXCEPT !.style = Restyle(page.style, page.hovered, BaseStyle),
                            !.hovered = 0,
                            !.last = "unhover"]
    /\ UNCHANGED <<script, pc, df, data, env, fig, html>>

\* plotly_unhover on the trace under the pointer: nothing when the trace is
\* named after the active step of the slider, the base style otherwise.
Unhover ==
    /\ page # NoPage
    /\ page.handlers
    /\ page.hovered # 0
    /\ page' = [page EXCEPT
                   !.style = IF Traces[page.hovered].name = ActiveYear THEN page.style
                             ELSE Restyle(page.style, page.hovered, BaseStyle),
                   !.hovered = 0,
                   !.last = "unhover"]
    /\ UNCHANGED <<script, pc, df, data, env, fig, html>>

\* The plot is redrawn while the pointer is on a trace and the hover is
\* dropped without an unhover event.
HoverDropped ==
    /\ page # NoPage
    /\ page.hovered # 0
    /\ page' = [page EXCEPT !.hovered = 0, !.last = "dropped"]
    /\ UNCHANGED <<script, pc, df, data, env, fig, html>>

NextPage ==
    \/ OpenPage
    \/ DomContentLoaded
    \/ ClickButton
    \/ SliderStep
    \/ Hover
    \/ Unhover
    \/ HoverDropped

SpecPage == InitPage /\ [][NextPage]_vars

-----------------------------------------------------------------------------
(***************************************************************************)
(* Vocabulary of the properties.  Start indices i count from 0 and holding *)
(* lengths hh from 1, as in the contract of the Return Aggregator: cell    *)
(* (i, hh) is row i of column Return_{hh-1}.                               *)
(***************************************************************************)
Y == Len(returns)

R(i) == returns[i + 1].Return

Tot(i, hh) == returns_tot[hh][i + 1]

Avg(i, hh) == returns_avg[hh][i + 1]

\* The columns computed so far.
Lengths == 1..Len(returns_tot)

Starts == 0..(Y - 1)

Valid(i, hh) == i + hh <= Y

WinFinite(i, hh) == \A k \in i..(i + hh - 1) : IsFinite(R(k))

\* The product of (1 + r[k]) for k = i..i+hh-1.
RECURSIVE Compound(_, _)
Compound(i, hh) ==
    IF hh = 0 THEN Rat(1, 1)
    ELSE Mul(Compound(i, hh - 1), AddInt(R(i + hh - 1), 1))

\* a == b on floats: a NaN equals nothing.
Same(a, b) == ~IsNaN(a) /\ ~IsNaN(b) /\ a = b

\* The years of the window whose factor 1 + r is negative, and zero.
NegYears(i, hh) == {k \in i..(i + hh - 1) : R(k).d > 0 /\ R(k).n + R(k).d < 0}

ZeroYears(i, hh) == {k \in i..(i + hh - 1) : R(k).d > 0 /\ R(k).n + R(k).d = 0}

-----------------------------------------------------------------------------
(***************************************************************************)
(* C1.  The claim as stated: for every annual-return series and every      *)
(* valid window (i, hh), the total-return cell equals the product of       *)
(* (1 + r[k]) over the window, minus 1.                                    *)
(***************************************************************************)
C1_TotalEveryWindow ==
    \A hh \in Lengths : \A i \in Starts :
        Valid(i, hh) => Same(Tot(i, hh), AddInt(Compound(i, hh), -1))

(***************************************************************************)
(* C1, amended.  For every valid window (i, hh) whose returns are all      *)
(* finite, the total-return cell equals the product of (1 + r[k]) over     *)
(* the window, minus 1.                                                    *)
(***************************************************************************)
C1_TotalFiniteWindow ==
    \A hh \in Lengths : \A i \in Starts :
        Valid(i, hh) /\ WinFinite(i, hh)
            => Same(Tot(i, hh), AddInt(Compound(i, hh), -1))

\* Returns [0.10, 0.10] aggregated: total(0,2) = 0.21.
C1_Witness ==
    /\ script = "heatmap"
    /\ pc = "aggregated"
    /\ Y = 2
    /\ R(0) = Rat(1, 10) /\ R(1) = Rat(1, 10)
    /\ Tot(0, 2) = Rat(21, 100)

-----------------------------------------------------------------------------
(***************************************************************************)
(* C2.  The claim as stated, read over series of finite returns: for      *)
(* every valid window (i, hh), the annualized cell is a number x such that *)
(* x + 1 is the hh-th root of the product of (1 + r[k]) over the window:   *)
(* (x + 1)^hh equals the product.                                          *)
(***************************************************************************)
C2_AnnualizedEveryWindow ==
    \A hh \in Lengths : \A i \in Starts :
        Valid(i, hh) /\ WinFinite(i, hh)
            => Same(PowInt(AddInt(Avg(i, hh), 1), hh), Compound(i, hh))

(***************************************************************************)
(* C2, amended.  For every valid window (i, hh) of finite returns whose    *)
(* product of (1 + r[k]) is not negative, or with hh = 1, the annualized   *)
(* cell is x with (x + 1)^hh equal to the product, and x + 1 >= 0 when     *)
(* hh >= 2 (the non-negative root).                                        *)
(***************************************************************************)
C2_AnnualizedNonNegativeProduct ==
    \A hh \in Lengths : \A i \in Starts :
        Valid(i, hh) /\ WinFinite(i, hh) /\ (Compound(i, hh).n >= 0 \/ hh = 1)
            => /\ Same(PowInt(AddInt(Avg(i, hh), 1), hh), Compound(i, hh))
               /\ hh >= 2 => AddInt(Avg(i, hh), 1).n >= 0 /\ AddInt(Avg(i, hh), 1).k = 0

\* Returns [-0.5, 1.0] aggregated: annualized(0,2) = 0.0.
C2_Witness ==
    /\ script = "heatmap"
    /\ pc = "aggregated"
    /\ Y = 2
    /\ R(0) = Rat(-1, 2) /\ R(1) = Rat(1, 1)
    /\ Avg(0, 2) = Rat(0, 1)

(***************************************************************************)
(* C3.  For every start index i and every holding length hh in 1..N with   *)
(* i + hh > Y both cells (i, hh) are absent (NaN); the aggregation reaches *)
(* no error on account of such a window (it raises only for an empty       *)
(* series, which has no start index); and no cell with i + hh <= Y is      *)
(* absent on account of missing history: the total cell of a window of     *)
(* finite returns is a number, and so is the annualized cell unless the    *)
(* product is negative and hh >= 2.  When the loop ends the frames have    *)
(* the N columns 1..N, N >= Y, of Y rows each.                             *)
(***************************************************************************)
C3_InsufficientHistoryAbsent ==
    /\ \A hh \in Lengths : \A i \in Starts :
          /\ ~Valid(i, hh) => IsNaN(Avg(i, hh)) /\ IsNaN(Tot(i, hh))
          /\ Valid(i, hh) /\ WinFinite(i, hh) =>
                /\ ~IsNaN(Tot(i, hh))
                /\ (Compound(i, hh).n >= 0 \/ hh = 1) => ~IsNaN(Avg(i, hh))
    /\ pc = "error" => Y = 0
    /\ (script = "heatmap" /\ pc = "aggregated") =>
          /\ Y >= 1 /\ N_YEARS.n >= Y
          /\ Len(returns_avg) = N_YEARS.n /\ Len(returns_tot) = N_YEARS.n
          /\ \A hh \in Lengths : Len(returns_avg[hh]) = Y /\ Len(returns_tot[hh]) = Y

\* Three years of returns: cell (1, 3) lacks history, cell (0, 3) does not.
C3_Witness ==
    /\ script = "heatmap"
    /\ pc = "aggregated"
    /\ Y = 3
    /\ IsNaN(Tot(1, 3)) /\ IsNaN(Avg(1, 3))
    /\ ~IsNaN(Tot(0, 3)) /\ ~IsNaN(Avg(0, 3))

(***************************************************************************)
(* C4.  The claim as stated: for all annual-return series in which no year *)
(* has r = -1 and every start index i, total(i,1) == r[i] and              *)
(* annualized(i,1) == r[i].                                                *)
(***************************************************************************)
C4_LengthOneEveryYear ==
    (1 \in Lengths /\ \A k \in Starts : R(k) # Rat(-1, 1))
        => \A i \in Starts : Same(Tot(i, 1), R(i)) /\ Same(Avg(i, 1), R(i))

(***************************************************************************)
(* C4, amended.  For all annual-return series in which no year has         *)
(* r = -1 and every start index i whose return r[i] is finite,             *)
(* total(i,1) == r[i] and annualized(i,1) == r[i].                         *)
(***************************************************************************)
C4_LengthOneFiniteYear ==
    (1 \in Lengths /\ \A k \in Starts : R(k) # Rat(-1, 1))
        => \A i \in Starts :
              IsFinite(R(i)) => Same(Tot(i, 1), R(i)) /\ Same(Avg(i, 1), R(i))

\* A series without a total loss, with a gain and a loss in it.
C4_Witness ==
    /\ script = "heatmap"
    /\ pc = "aggregated"
    /\ Y = 3
    /\ \A k \in Starts : R(k) # Rat(-1, 1)
    /\ R(0) = Rat(1, 1) /\ Tot(0, 1) = Rat(1, 1) /\ Avg(0, 1) = Rat(1, 1)
    /\ R(1) = Rat(-3, 4) /\ Tot(1, 1) = Rat(-3, 4) /\ Avg(1, 1) = Rat(-3, 4)

(***************************************************************************)
(* C5.  The claim as stated, read over series of finite returns: for all  *)
(* valid (i, hh) the two frames satisfy                                    *)
(* total(i,hh) == (1 + annualized(i,hh))^hh - 1.                           *)
(***************************************************************************)
C5_RoundTripEveryWindow ==
    \A hh \in Lengths : \A i \in Starts :
        Valid(i, hh) /\ WinFinite(i, hh)
            => Same(Tot(i, hh), AddInt(PowInt(AddInt(Avg(i, hh), 1), hh), -1))

(***************************************************************************)
(* C5, amended.  For all valid (i, hh) whose annualized cell is defined    *)
(* (not NaN), total(i,hh) == (1 + annualized(i,hh))^hh - 1.                *)
(***************************************************************************)
C5_RoundTripDefinedCell ==
    \A hh \in Lengths : \A i \in Starts :
        Valid(i, hh) /\ ~IsNaN(Avg(i, hh))
            => Same(Tot(i, hh), AddInt(PowInt(AddInt(Avg(i, hh), 1), hh), -1))

\* A window of three years whose annualized return is an irrational root.
C5_Witness ==
    /\ script = "heatmap"
    /\ pc = "aggregated"
    /\ Y = 3
    /\ Avg(0, 3) = [n |-> 2, d |-> 1, g |-> 3, k |-> -1]
    /\ Tot(0, 3) = Rat(1, 1)

(***************************************************************************)
(* C6.  The claim as stated: if some year k has r[k] = -1, then for every  *)
(* valid window (i, hh) with i <= k < i + hh the total cell is exactly -1. *)
(***************************************************************************)
C6_TotalLossEveryWindow ==
    \A k \in Starts : R(k) = Rat(-1, 1) =>
        \A hh \in Lengths : \A i \in Starts :
            Valid(i, hh) /\ i <= k /\ k < i + hh => Same(Tot(i, hh), Rat(-1, 1))

(***************************************************************************)
(* C6, amended.  If some year k has r[k] = -1, then for every valid window *)
(* (i, hh) with i <= k < i + hh in which every return is finite the total  *)
(* cell is exactly -1.                                                     *)
(***************************************************************************)
C6_TotalLossFiniteWindow ==
    \A k \in Starts : R(k) = Rat(-1, 1) =>
        \A hh \in Lengths : \A i \in Starts :
            Valid(i, hh) /\ i <= k /\ k < i + hh /\ WinFinite(i, hh)
                => Same(Tot(i, hh), Rat(-1, 1))

\* A gain followed by a total loss: the window over both years has total -1.
C6_Witness ==
    /\ script = "heatmap"
    /\ pc = "aggregated"
    /\ Y >= 2
    /\ R(0) = Rat(1, 1) /\ R(1) = Rat(-1, 1)
    /\ Tot(0, 2) = Rat(-1, 1)

(***************************************************************************)
(* C7.  The claim as stated, read over series of finite returns: for      *)
(* every valid window (i, hh) that contains at least one year with         *)
(* (1 + r[k]) <= 0 the annualized cell is NaN, and no exception is raised. *)
(***************************************************************************)
C7_NonPositiveFactorIsNaN ==
    \A hh \in Lengths : \A i \in Starts :
        Valid(i, hh) /\ WinFinite(i, hh) /\ NegYears(i, hh) \cup ZeroYears(i, hh) # {}
            => IsNaN(Avg(i, hh)) /\ pc # "error"

(***************************************************************************)
(* C7, amended.  For every valid window (i, hh) with hh >= 2 that contains *)
(* an odd number of years with (1 + r[k]) < 0 and no year with             *)
(* (1 + r[k]) = 0 the annualized cell is NaN, and no exception is raised.  *)
(***************************************************************************)
C7_OddNegativeFactorsIsNaN ==
    \A hh \in Lengths : \A i \in Starts :
        /\ Valid(i, hh) /\ hh >= 2
        /\ Cardinality(NegYears(i, hh)) % 2 = 1
        /\ ZeroYears(i, hh) = {}
        => IsNaN(Avg(i, hh)) /\ pc # "error"

\* One year with 1 + r < 0 in a window of two finite returns.
C7_Witness ==
    /\ script = "heatmap"
    /\ pc = "aggregated"
    /\ Y = 2
    /\ R(0) = Rat(-2, 1) /\ R(1) = Rat(1, 1)
    /\ IsNaN(Avg(0, 2))

(***************************************************************************)
(* C8.  Whenever the rolling product of a window of length hh >= 2 is      *)
(* negative, the annualized cell of the window is NaN and the run has      *)
(* raised no error; all other cells are computed as usual: the total cell  *)
(* of that window is the product minus 1, and the annualized cell of a     *)
(* window whose rolling product is not negative is a number.               *)
(***************************************************************************)
C8_NegativeProductIsNaN ==
    \A hh \in Lengths : \A i \in Starts :
        Valid(i, hh) /\ WinFinite(i, hh) =>
            /\ (hh >= 2 /\ Compound(i, hh).n < 0) =>
                  /\ IsNaN(Avg(i, hh))
                  /\ pc # "error"
                  /\ Tot(i, hh) = AddInt(Compound(i, hh), -1)
            /\ Compound(i, hh).n >= 0 => ~IsNaN(Avg(i, hh))

\* A negative product over three years (an odd root) next to defined cells.
C8_Witness ==
    /\ script = "heatmap"
    /\ pc = "aggregated"
    /\ Y = 3
    /\ WinFinite(0, 3) /\ Compound(0, 3).n < 0
    /\ IsNaN(Avg(0, 3))
    /\ ~IsNaN(Avg(0, 2)) /\ ~IsNaN(Tot(0, 3))

-----------------------------------------------------------------------------
\* x lies in interval j, closed on the left and open on the right.
InInterval(x, j) == Leq(bins[j], x) /\ ~Leq(bins[j + 1], x)

\* The number of lists of return_dict that hold row i of the returns.
ListsHolding(i) ==
    {iv \in Categories : \E m \in DOMAIN return_dict[iv] : return_dict[iv][m] = returns[i]}

(***************************************************************************)
(* C9.  The claim as stated: the binning assigns every annual return to    *)
(* exactly one of the 12 intervals between the edges -inf, -0.5, ..., 0.5, *)
(* +inf, each closed on the left and open on the right: the return lies in *)
(* its interval and in no other, a return equal to an edge b lies in the   *)
(* interval that starts at b, and the year is listed under that interval   *)
(* alone.                                                                  *)
(***************************************************************************)
C9_EveryReturnBinned ==
    /\ Len(bins) - 1 = 12
    /\ pc \in {"binned", "grouped"} =>
          \A i \in 1..Y :
              /\ Interval[i] \in Categories
              /\ \A j \in Categories : InInterval(returns[i].Return, j) <=> j = Interval[i]
              /\ \A j \in Categories :
                    returns[i].Return = bins[j] => Interval[i] = j
    /\ pc = "grouped" => \A i \in 1..Y : ListsHolding(i) = {Interval[i]}

(***************************************************************************)
(* C9, amended.  The binning assigns every annual return other than +inf   *)
(* to exactly one of the 12 intervals between the edges -inf, -0.5, ...,   *)
(* 0.5, +inf, each closed on the left and open on the right: the return    *)
(* lies in its interval and in no other, a return equal to an edge b lies  *)
(* in the interval that starts at b, and the year is listed under that     *)
(* interval alone.  A return of +inf is assigned to no interval.           *)
(***************************************************************************)
C9_EveryReturnButPosInfBinned ==
    /\ Len(bins) - 1 = 12
    /\ pc \in {"binned", "grouped"} =>
          \A i \in 1..Y :
              IF returns[i].Return = PosInf
              THEN Interval[i] = 0
              ELSE /\ Interval[i] \in Categories
                   /\ \A j \in Categories :
                         InInterval(returns[i].Return, j) <=> j = Interval[i]
                   /\ \A j \in Categories :
                         returns[i].Return = bins[j] => Interval[i] = j
    /\ pc = "grouped" =>
          \A i \in 1..Y :
              ListsHolding(i) = IF returns[i].Return = PosInf THEN {} ELSE {Interval[i]}

\* Returns on the edges 0.5 and 0: in the intervals [0.5, inf) and [0, 0.1).
C9_Witness ==
    /\ pc = "grouped"
    /\ Y = 2
    /\ returns[1].Return = Rat(1, 2) /\ Interval[1] = 12
    /\ returns[2].Return = Rat(0, 1) /\ Interval[2] = 7
    /\ return_dict[12] = <<returns[1]>> /\ return_dict[7] = <<returns[2]>>

-----------------------------------------------------------------------------
\* The last observed price of calendar year y in the input.
LastObserved(y) ==
    df[CHOOSE j \in DOMAIN df :
          df[j].year = y /\ \A m \in DOMAIN df : m > j => df[m].year # y].Close

(***************************************************************************)
(* C10.  The annual return of each year y of the series is the simple      *)
(* return of the last observed price of year y against the last observed   *)
(* price of year y - 1, last(y) / last(y - 1) - 1, and the first year of   *)
(* the input has no return.  (The series holds one row for each year       *)
(* after the first and before the cut-off year whose return is not NaN.)   *)
(***************************************************************************)
C10_ReturnFromYearEnds ==
    (script \in ReturnScripts /\ pc \notin {"start", "fatal", "loaded"}) =>
        LET first == df[1].year
            final == df[Len(df)].year
            Simple(y) == AddInt(FloatDiv(LastObserved(y), LastObserved(y - 1)), -1)
        IN  /\ \A i \in 1..Y :
                  /\ returns[i].year \in (first + 1)..final
                  /\ returns[i].Return = Simple(returns[i].year)
            /\ \A i \in 1..Y : returns[i].year # first
            /\ \A y \in (first + 1)..final :
                  Cardinality({i \in 1..Y : returns[i].year = y})
                      = IF y < CutoffYear /\ ~IsNaN(Simple(y)) THEN 1 ELSE 0

\* Two observations in each of two years: the return is taken between the
\* second observations, 2 / 3 - 1.
C10_Witness ==
    /\ script \in ReturnScripts
    /\ pc = "prepared"
    /\ Len(df) = 4
    /\ df[1].year = df[2].year /\ df[3].year = df[4].year /\ df[2].year # df[3].year
    /\ df[1].Close = 2 /\ df[2].Close = 3 /\ df[3].Close = 3 /\ df[4].Close = 2
    /\ Y = 1
    /\ returns[1].year = df[4].year /\ returns[1].Return = Rat(-1, 3)


-----------------------------------------------------------------------------
\* The number of distinct calendar years of the input price series.
DistinctYears == Cardinality({df[i].year : i \in DOMAIN df})

\* The years of the annual-return series.
ReturnYears == {returns[i].year : i \in DOMAIN returns}

\* The Return Matrix of the run is complete.
MatrixDone == script \in {"heatmap", "long-term"} /\ pc = "aggregated"

\* The number of holding-period columns of the Return Matrix.
Columns == IF script = "heatmap" THEN Len(returns_avg) ELSE Len(Return_h)

(***************************************************************************)
(* C11 as stated, read over the price series of positive prices (every      *)
(* year after the first has a finite return).  The Return Matrix has       *)
(* holding-period columns for exactly the lengths 1..N, where N is the     *)
(* number of distinct years of the input price series minus 1.             *)
(***************************************************************************)
C11_ColumnsFromInputYears ==
    (MatrixDone /\ \A i \in DOMAIN df : df[i].Close > 0) =>
        /\ Columns = DistinctYears - 1
        /\ script = "heatmap" => Len(returns_tot) = DistinctYears - 1

(***************************************************************************)
(* C11.  The Return Matrix has holding-period columns for exactly the      *)
(* lengths 1..N, where N is the last year minus the first year plus 1 of   *)
(* the annual-return series (the years before the cut-off year that have   *)
(* a return); N is the number of distinct years of the input minus 1 when  *)
(* the input ends before the cut-off year and the returns of its second    *)
(* and of its last year are not NaN.  A series without a return gives no   *)
(* matrix: the run ends in an error.                                       *)
(***************************************************************************)
C11_ColumnsFromReturnYears ==
    /\ MatrixDone =>
          /\ ReturnYears # {}
          /\ Columns = Max(ReturnYears) - Min(ReturnYears) + 1
          /\ script = "heatmap" => Len(returns_tot) = Columns
          /\ (/\ df[Len(df)].year < CutoffYear
              /\ df[1].year + 1 \in ReturnYears
              /\ df[Len(df)].year \in ReturnYears)
             => Columns = DistinctYears - 1
    /\ (script \in {"heatmap", "long-term"} /\ pc = "error") => ReturnYears = {}

\* An input of four years ending in the cut-off year: the matrix has two
\* columns, for the returns of the two years before the cut-off year.
C11_Witness ==
    /\ MatrixDone
    /\ DistinctYears = 4
    /\ df[Len(df)].year = CutoffYear
    /\ Columns = 2
    /\ ReturnYears = {CutoffYear - 2, CutoffYear - 1}
-----------------------------------------------------------------------------
\* The heatmap figure is built.
HeatmapBuilt == script = "heatmap" /\ pc \in {"built", "written"}

\* Trace 1 shows the annualized matrix, trace 2 the total matrix; row r of a
\* trace is start index Y - r, column c is holding length c.
CellOf(t, r, c) == IF t = 1 THEN Avg(Y - r, c) ELSE Tot(Y - r, c)

(***************************************************************************)
(* C13.  In the heatmap output a cell's text label is blank (the empty     *)
(* string) if and only if the cell's value is absent (NaN), in both the    *)
(* annualized and the total matrix, and every defined cell carries a       *)
(* non-empty percentage label: a number followed by "%".  Every cell of    *)
(* both matrices has a label and is shown with its own value.              *)
(***************************************************************************)
C13_BlankIffAbsent ==
    HeatmapBuilt =>
        \A t \in 1..2 :
            /\ DOMAIN fig.data[t].text = 1..Y
            /\ \A r \in 1..Y :
                  /\ DOMAIN fig.data[t].text[r] = Lengths
                  /\ \A c \in Lengths :
                        LET label == fig.data[t].text[r][c]
                        IN  /\ fig.data[t].z[r][c] = CellOf(t, r, c)
                            /\ label = << >> <=> IsNaN(CellOf(t, r, c))
                            /\ ~IsNaN(CellOf(t, r, c)) =>
                                  /\ Len(label) = 2
                                  /\ label[2] = "%"
                                  /\ label[1] = Round1Str(CellOf(t, r, c))

\* Returns [0.10, 0.10]: the top row (start index 1) reads "10.0%" and blank,
\* the bottom row "10.0%" and "21.0%" in the total matrix.
C13_Witness ==
    /\ HeatmapBuilt
    /\ Y = 2
    /\ R(0) = Rat(1, 10) /\ R(1) = Rat(1, 10)
    /\ fig.data[2].text = << << <<[tenths |-> 100], "%">>, << >> >>,
                             << <<[tenths |-> 100], "%">>, <<[tenths |-> 210], "%">> >> >>
    /\ fig.data[1].text[1][2] = << >>
    /\ fig.data[1].text[2][2] = <<[tenths |-> 100], "%">>
-----------------------------------------------------------------------------
(***************************************************************************)
(* C12.  When the input CSV file is missing, a run ends in a fatal error   *)
(* with no recovery or retry: the run gets no further than the read, no    *)
(* data is loaded, no figure is built and the HTML output file is neither  *)
(* written nor overwritten.                                                *)
(***************************************************************************)
C12_MissingFileIsFatal ==
    ~env.csv =>
        /\ pc \in {"start", "fatal"}
        /\ df = << >>
        /\ fig = NoFigure
        /\ html = Before
        /\ page = NoPage

\* The read of the missing file has been reached and has raised.
C12_Witness ==
    /\ ~env.csv
    /\ env.locale
    /\ pc = "fatal"
    /\ html = Before
-----------------------------------------------------------------------------
\* The normalized frame of plot_multiple.py is computed.
IsNormalized == script = "multiple" /\ pc \in {"prepared", "built", "written"}

\* The row of the first trading day of the year of row i.
FirstRow(i) ==
    CHOOSE j \in DOMAIN df :
        /\ df[j].year = df[i].year
        /\ \A m \in DOMAIN df : df[m].year = df[i].year => j <= m

\* The percent change of price p from price p0: (p / p0 - 1) * 100.
PercentChange(p, p0) == Mul(AddInt(FloatDiv(p, p0), -1), Rat(100, 1))

(***************************************************************************)
(* C16 as stated.  Every day's Normalized value is the percent change of   *)
(* that day's price from the price of the first trading day of the same    *)
(* calendar year, so for every year the first trading day has              *)
(* Normalized = 0 and Normalized_log = 0.                                  *)
(***************************************************************************)
C16_FirstDayZeroEveryYear ==
    IsNormalized =>
        \A i \in DOMAIN df :
            /\ df[i].Normalized = PercentChange(df[i].Value, df[FirstRow(i)].Value)
            /\ i = FirstRow(i) =>
                  /\ df[i].Normalized = Rat(0, 1)
                  /\ df[i].Normalized_log = Rat(0, 1)

(***************************************************************************)
(* C16.  Every day's Normalized value is the percent change of that day's  *)
(* price from the price of the first trading day of the same calendar      *)
(* year, and Normalized_log is the base-2 logarithm of the ratio of the    *)
(* two prices; a value depends on no price of another year.  For every     *)
(* year whose first price is not zero the first trading day has            *)
(* Normalized = 0 and Normalized_log = 0; in a year whose first price is   *)
(* zero both are NaN on the first trading day.                             *)
(***************************************************************************)
C16_FirstDayZeroNonZeroPrice ==
    IsNormalized =>
        \A i \in DOMAIN df :
            LET p  == df[i].Value
                p0 == df[FirstRow(i)].Value
            IN  /\ df[i].Normalized = PercentChange(p, p0)
                /\ df[i].Normalized_log = Log2(FloatDiv(p, p0))
                /\ (i = FirstRow(i) /\ p0 # 0) =>
                      /\ df[i].Normalized = Rat(0, 1)
                      /\ df[i].Normalized_log = Rat(0, 1)
                /\ (i = FirstRow(i) /\ p0 = 0) =>
                      /\ IsNaN(df[i].Normalized)
                      /\ IsNaN(df[i].Normalized_log)

\* Two years that start at different prices: 1 -> 2 is +100% and one
\* doubling, 2 -> 1 is -50% and one halving; both first days are at 0.
C16_Witness ==
    /\ IsNormalized
    /\ Len(df) = 4
    /\ df[1].year # df[3].year
    /\ df[1].Value = 1 /\ df[2].Value = 2 /\ df[3].Value = 2 /\ df[4].Value = 1
    /\ df[1].Normalized = Rat(0, 1) /\ df[1].Normalized_log = Rat(0, 1)
    /\ df[2].Normalized = Rat(100, 1) /\ df[2].Normalized_log = Rat(1, 1)
    /\ df[3].Normalized = Rat(0, 1) /\ df[3].Normalized_log = Rat(0, 1)
    /\ df[4].Normalized = Rat(-50, 1) /\ df[4].Normalized_log = Rat(-1, 1)
-----------------------------------------------------------------------------
\* The number of traces of one display mode: the first half of the traces of
\* the figure shows the first mode, the second half the second mode.
ModeSize == Len(Traces) \div 2

FirstMode == 1..ModeSize

SecondMode == (ModeSize + 1)..(2 * ModeSize)

\* The traces that are visible on the page.
Visible == {j \in DOMAIN page.visible : page.visible[j]}

(***************************************************************************)
(* C14.  In every chart with a two-mode toggle (heatmap, multiple,         *)
(* returns-two, single) exactly one display mode is visible when the page  *)
(* opens and after any sequence of button clicks, slider steps and hover   *)
(* events: the set of visible traces is the complete set of traces of one  *)
(* mode and holds no trace of the other mode.  In the multiple-profiles    *)
(* chart the modes are the traces of the column Normalized and the traces  *)
(* of the column Normalized_log.                                           *)
(***************************************************************************)
C14_ExactlyOneModeVisible ==
    page # NoPage =>
        /\ ModeSize >= 1
        /\ DOMAIN page.visible = FirstMode \cup SecondMode
        /\ Visible = FirstMode \/ Visible = SecondMode
        /\ page.last = "open" => Visible = FirstMode
        /\ script = "multiple" =>
              /\ \A j \in FirstMode : Traces[j].col = "Normalized"
              /\ \A j \in SecondMode : Traces[j].col = "Normalized_log"

\* The second mode of a chart of three years after a click: the three
\* logarithmic traces are visible, the three additive ones are hidden.
C14_Witness ==
    /\ page # NoPage
    /\ script = "multiple"
    /\ page.last = "click"
    /\ ModeSize = 3
    /\ Visible = {4, 5, 6}

-----------------------------------------------------------------------------
(***************************************************************************)
(* C15.  In the multiple-profiles chart, after slider step i (counted      *)
(* from 0) exactly the two traces of year years[i], trace i of the         *)
(* additive mode and trace i + n_years of the multiplicative mode, have    *)
(* the highlight style, and every other trace has the base style,          *)
(* whatever the state before the step.                                     *)
(***************************************************************************)
C15_StepHighlightsOneYear ==
    (page # NoPage /\ page.last = "step") =>
        LET i == page.active
        IN  /\ Traces[i + 1].name = ActiveYear
            /\ Traces[i + 1 + ModeSize].name = ActiveYear
            /\ \A j \in DOMAIN Traces :
                  /\ Traces[j].name = ActiveYear <=> j \in {i + 1, i + 1 + ModeSize}
                  /\ page.style[j] = IF j \in {i + 1, i + 1 + ModeSize}
                                     THEN HighlightStyle ELSE BaseStyle

\* Step 1 of a chart of three years, taken with the pointer on a trace:
\* traces 1 and 4 (counted from 0) are highlighted.
C15_Witness ==
    /\ page # NoPage
    /\ page.last = "step"
    /\ page.active = 1
    /\ page.hovered # 0
    /\ ModeSize = 3
    /\ {j \in DOMAIN Traces : page.style[j] = HighlightStyle} = {2, 5}

-----------------------------------------------------------------------------
(***************************************************************************)
(* C18.  In the multiple-profiles chart, once the hover script has run     *)
(* (the page has loaded), the traces of the year of the active slider step *)
(* have the highlight style after any sequence of hover, unhover,          *)
(* slider-step and mode-button events; an unhover leaves the trace of the  *)
(* active year highlighted.                                                *)
(***************************************************************************)
C18_ActiveYearStaysHighlighted ==
    (page # NoPage /\ page.handlers) =>
        \A j \in DOMAIN Traces :
            Traces[j].name = ActiveYear => page.style[j] = HighlightStyle

\* After an unhover with step 1 active: the traces of the active year are
\* highlighted and no other trace is.
C18_Witness ==
    /\ page # NoPage
    /\ page.handlers
    /\ page.last = "unhover"
    /\ page.active = 1
    /\ ModeSize = 3
    /\ {j \in DOMAIN Traces : page.style[j] = HighlightStyle} = {2, 5}
-----------------------------------------------------------------------------
\* The annualized frame plot_heatmap.py computes from input file d: its
\* annual returns and the columns Return_0.. of returns_avg (no column when
\* the run ends in the error of the empty series).
HeatmapReturnsOf(d) == AnnualReturns(ResampleLast(d))

HeatmapAvgOf(d) ==
    LET rows == HeatmapReturnsOf(d)
        N    == IndexSpan(rows)
    IN  IF IsNaN(N) THEN << >>
        ELSE [c \in 1..N.n |-> AvgColumn(OnePlus(rows), c - 1)]

(***************************************************************************)
(* C17.  For every input price series the annualized-return matrix         *)
(* computed by plot_long-term.py (columns Return_0..Return_{N-1}) is       *)
(* cell-for-cell equal, including which cells are undefined (NaN), to the  *)
(* annualized matrix computed by plot_heatmap.py from the same input: the  *)
(* same start years, the same number of columns, the same cells, column    *)
(* by column while the loop runs; and plot_long-term.py ends in the error  *)
(* of the empty series exactly when plot_heatmap.py does.                  *)
(***************************************************************************)
C17_SameMatrixInBothScripts ==
    (script = "long-term" /\ pc \in {"loop", "aggregated", "error"}) =>
        LET heatmap == HeatmapAvgOf(df)
        IN  /\ returns = HeatmapReturnsOf(df)
            /\ pc = "error" <=> heatmap = << >>
            /\ pc = "aggregated" => Len(Return_h) = Len(heatmap)
            /\ Len(Return_h) <= Len(heatmap)
            /\ \A c \in DOMAIN Return_h :
                  /\ DOMAIN Return_h[c] = DOMAIN heatmap[c]
                  /\ \A i \in DOMAIN Return_h[c] : Return_h[c][i] = heatmap[c][i]

\* Returns [-0.5, 1.0]: the long-term matrix is [[-0.5, 0.0], [1.0, NaN]],
\* the annualized matrix of the heatmap.
C17_Witness ==
    /\ script = "long-term"
    /\ pc = "aggregated"
    /\ Y = 2
    /\ R(0) = Rat(-1, 2) /\ R(1) = Rat(1, 1)
    /\ Return_h = << <<Rat(-1, 2), Rat(1, 1)>>, <<Rat(0, 1), NaN>> >>
    /\ Return_h = HeatmapAvgOf(df)
-----------------------------------------------------------------------------
\* The figure of plot_returns-one.py is built.
BarsBuilt == script = "returns-one" /\ pc \in {"built", "written"}

\* The bars of the figure that show row i of the return series.
BarsOf(i) == {b \in DOMAIN fig.data : fig.data[b].text[1] = returns[i].year}

\* The bars in the column of interval iv.
ColumnOf(iv) == {b \in DOMAIN fig.data : fig.data[b].x = iv}

\* Every bar has unit height, and the bars of every column are stacked
\* without gap or overlap: their bases are 0, 1, .. in the order they were
\* added, and base_tracker counts them.
Stacked ==
    /\ \A b \in DOMAIN fig.data : fig.data[b].y = 1
    /\ \A iv \in Categories :
          /\ base_tracker[iv] = Cardinality(ColumnOf(iv))
          /\ {fig.data[b].base : b \in ColumnOf(iv)} = 0..(base_tracker[iv] - 1)
          /\ \A a, b \in ColumnOf(iv) : a < b => fig.data[a].base < fig.data[b].base

(***************************************************************************)
(* C19 as stated.  In the returns-one chart every year with a return is    *)
(* drawn as exactly one unit-height bar in the column of its interval, the *)
(* bars of a column are stacked without gap or overlap, base_tracker[iv]   *)
(* is the number of years in interval iv and the total number of bars      *)
(* equals the number of years.                                             *)
(***************************************************************************)
C19_OneBarEveryYear ==
    BarsBuilt =>
        /\ \A i \in 1..Y : Cardinality(BarsOf(i)) = 1
        /\ Stacked
        /\ Len(fig.data) = Y

(***************************************************************************)
(* C19.  In the returns-one chart every year with a return other than      *)
(* +inf is drawn as exactly one unit-height bar in the column of its       *)
(* interval (a year with a return of +inf has no interval and no bar), and *)
(* the bars of a column are stacked without gap or overlap: the k-th year  *)
(* added to an interval (k = 0, 1, ...) has base k, so after all bars are  *)
(* added base_tracker[iv] equals the number of years in interval iv and    *)
(* the total number of bars equals the number of years with a return       *)
(* other than +inf.                                                        *)
(***************************************************************************)
C19_OneBarEveryBinnedYear ==
    BarsBuilt =>
        /\ \A i \in 1..Y :
              IF returns[i].Return = PosInf THEN BarsOf(i) = {}
              ELSE /\ Cardinality(BarsOf(i)) = 1
                   /\ \A b \in BarsOf(i) :
                         /\ fig.data[b].x = Interval[i]
                         /\ InInterval(returns[i].Return, fig.data[b].x)
                         /\ fig.data[b].base =
                                Cardinality({m \in 1..(i - 1) : Interval[m] = Interval[i]})
        /\ Stacked
        /\ \A iv \in Categories :
              base_tracker[iv] = Cardinality({i \in 1..Y : Interval[i] = iv})
        /\ Len(fig.data) = Cardinality({i \in 1..Y : returns[i].Return # PosInf})

\* Three years in the interval [0, 0.1) (returns 0, 0, 0): bases 0, 1, 2.
C19_Witness ==
    /\ BarsBuilt
    /\ Y = 3
    /\ \A i \in 1..3 : Interval[i] = 7
    /\ base_tracker[7] = 3
    /\ Len(fig.data) = 3
    /\ \A b \in 1..3 : fig.data[b].x = 7 /\ fig.data[b].base = b - 1
-----------------------------------------------------------------------------
\* The figure of plot_long-term.py is built.
LongTermBuilt == script = "long-term" /\ pc \in {"built", "written"}

\* The plotted values of holding length hh.
Lower(hh) == fig.data[1].y[hh]

Upper(hh) == fig.data[2].y[hh]

Average(hh) == fig.data[3].y[hh]

\* The start years (rows) whose window of length hh is defined.
DefinedStarts(hh) == {i \in DOMAIN Return_h[hh] : ~IsNaN(Return_h[hh][i])}

\* a <= b for two plotted values of one column, one of them a single cell:
\* a cell is at most a mean when it is at most every term of the mean, and
\* at least a mean when it is at least every term.  NaN compares FALSE.
LeqPlot(a, b) ==
    /\ a.count > 0 /\ b.count > 0
    /\ a.times = b.times
    /\ a.count = 1 \/ b.count = 1
    /\ \A s \in DOMAIN a.sum : \A t \in DOMAIN b.sum : LeqReal(a.sum[s], b.sum[t])

(***************************************************************************)
(* C20 as stated, read over the series of finite returns.  In the          *)
(* long-term chart, for every holding length h in 1..N the plotted values  *)
(* satisfy lower(h) <= average(h) <= upper(h); for the longest holding     *)
(* length h = N, which has a single defined start year, the three values   *)
(* coincide.                                                               *)
(***************************************************************************)
C20_BoundsEveryLength ==
    (LongTermBuilt /\ \A i \in 1..Y : IsFinite(returns[i].Return)) =>
        /\ \A hh \in DOMAIN Return_h :
              LeqPlot(Lower(hh), Average(hh)) /\ LeqPlot(Average(hh), Upper(hh))
        /\ Cardinality(DefinedStarts(Len(Return_h))) = 1
        /\ Lower(Len(Return_h)) = Average(Len(Return_h))
        /\ Average(Len(Return_h)) = Upper(Len(Return_h))

(***************************************************************************)
(* C20.  In the long-term chart, for every holding length h in 1..N the    *)
(* three plotted values are taken over exactly the start years whose       *)
(* window of length h is defined: lower(h) is 100 times the least,         *)
(* upper(h) 100 times the greatest and average(h) 100 times the mean of    *)
(* their cells.  When at least one window of length h is defined,          *)
(* lower(h) <= average(h) <= upper(h); when none is, the three values are  *)
(* absent (NaN).  For the longest holding length h = N at most one start   *)
(* year is defined, and when there is one the three values coincide.       *)
(***************************************************************************)
C20_BoundsOverDefinedStarts ==
    LongTermBuilt =>
        /\ DOMAIN fig.data[1].y = DOMAIN Return_h
        /\ \A hh \in DOMAIN Return_h :
              LET D == DefinedStarts(hh)
                  col == Return_h[hh]
              IN  /\ D = {} =>
                        Lower(hh) = PlotNaN /\ Average(hh) = PlotNaN /\ Upper(hh) = PlotNaN
                  /\ D # {} =>
                        /\ \E i \in D : Lower(hh) = Times100(col[i])
                        /\ \E i \in D : Upper(hh) = Times100(col[i])
                        /\ \A i \in D : LeqPlot(Lower(hh), Times100(col[i]))
                        /\ \A i \in D : LeqPlot(Times100(col[i]), Upper(hh))
                        /\ Average(hh) = MeanOf([m \in 1..Cardinality(D) |->
                                                  Defined(col)[m]])
                        /\ LeqPlot(Lower(hh), Average(hh))
                        /\ LeqPlot(Average(hh), Upper(hh))
                  /\ Cardinality(D) = 1 =>
                        Lower(hh) = Average(hh) /\ Average(hh) = Upper(hh)
        /\ Cardinality(DefinedStarts(Len(Return_h))) <= 1

\* Returns [1, 0, 1] (prices 1, 2, 2, 4): the two-year windows have the
\* annualized returns sqrt(2) - 1 twice, the one-year windows 1, 0, 1 with
\* the mean 2/3, and the three-year window stands alone.
C20_Witness ==
    /\ LongTermBuilt
    /\ Y = 3
    /\ R(0) = Rat(1, 1) /\ R(1) = Rat(0, 1) /\ R(2) = Rat(1, 1)
    /\ Lower(1) = Times100(Rat(0, 1))
    /\ Average(1) = Times100(Rat(2, 3))
    /\ Upper(1) = Times100(Rat(1, 1))
    /\ Cardinality(DefinedStarts(2)) = 2
    /\ Cardinality(DefinedStarts(3)) = 1
    /\ Lower(3) = Average(3) /\ Average(3) = Upper(3)
    /\ Lower(3).count = 1
-----------------------------------------------------------------------------
\* The start index (from 0) of the row of the return series with year y.
StartOf(y) == CHOOSE i \in Starts : returns[i + 1].year = y

\* The cell of the frame of trace t (1: returns_avg, 2: returns_tot) in the
\* row of year y and the column of holding length hh.
FrameCell(t, y, hh) == IF t = 1 THEN Avg(StartOf(y), hh) ELSE Tot(StartOf(y), hh)

(***************************************************************************)
(* C22.  In the heatmap the row and column labels stay aligned with the    *)
(* data after the newest-at-top reversal.  Both traces carry one row label *)
(* for every year of the return series, newest first and each year once,   *)
(* and the column labels 1, 2, ... (column c from 0 is labelled c + 1).    *)
(* For every row k and column c, the cell z[k][c] and its text label are   *)
(* the value and the label of the frame's cell for start year y_years[k]   *)
(* and holding length x_years[c]: absent when fewer than x_years[c]        *)
(* returns follow from that year on, and in the total trace, for a window  *)
(* of finite returns, the product of (1 + r) over the x_years[c] returns   *)
(* that start with the one of year y_years[k], minus 1.                    *)
(***************************************************************************)
C22_LabelsAlignedWithData ==
    HeatmapBuilt =>
        \A t \in 1..2 :
            LET trace == fig.data[t]
            IN  /\ DOMAIN trace.y = 1..Y
                /\ DOMAIN trace.x = Lengths
                /\ DOMAIN trace.z = 1..Y
                /\ {trace.y[k] : k \in 1..Y} = {returns[i].year : i \in 1..Y}
                /\ \A k \in 1..(Y - 1) : trace.y[k] > trace.y[k + 1]
                /\ \A c \in Lengths : trace.x[c] = c
                /\ \A k \in 1..Y : \A c \in Lengths :
                      LET y  == trace.y[k]
                          hh == trace.x[c]
                      IN  /\ trace.z[k][c] = FrameCell(t, y, hh)
                          /\ trace.text[k][c] = Label(FrameCell(t, y, hh))
                          /\ ~Valid(StartOf(y), hh) => IsNaN(trace.z[k][c])
                          /\ (t = 2 /\ Valid(StartOf(y), hh)
                                /\ WinFinite(StartOf(y), hh))
                                => Same(trace.z[k][c],
                                        AddInt(Compound(StartOf(y), hh), -1))

\* Year-end prices 1, 2, 4, 4 from 2021 on: returns 1, 1, 0 for 2022 to
\* 2024.  The top row is 2024 (0% and two blanks), the bottom row 2022
\* (total 100%, 300%, 300%).
C22_Witness ==
    /\ HeatmapBuilt
    /\ Y = 3
    /\ R(0) = Rat(1, 1) /\ R(1) = Rat(1, 1) /\ R(2) = Rat(0, 1)
    /\ fig.data[2].y = <<2024, 2023, 2022>>
    /\ fig.data[2].x = <<1, 2, 3>>
    /\ fig.data[2].z[3] = <<Rat(1, 1), Rat(3, 1), Rat(3, 1)>>
    /\ fig.data[2].z[1] = <<Rat(0, 1), NaN, NaN>>
    /\ fig.data[1].text[1] = << <<[tenths |-> 0], "%">>, << >>, << >> >>
    /\ fig.data[1].y = fig.data[2].y
-----------------------------------------------------------------------------
\* A page of the weekly profile on which a click sets only the attributes of
\* the y-axis that the button lists.
SinglePage == script = "single" /\ page # NoPage /\ page.relayout = "merge"

====
